---- MODULE Spec2Model ----
(***************************************************************************)
(* State-machine model of the PostgreSQL lexical-equivalence fuzzers of    *)
(* scripts/fuzzers: the width-1 .. width-4 whitespace fuzzers, the HTTP    *)
(* whitespace fuzzer and test_payload of the WAF-evasion HTTP fuzzer.      *)
(*                                                                         *)
(* One behaviour is one run of one script.  The database / web target is   *)
(* the environment: it answers every probe.  Its lexical rule is fixed at  *)
(* the start of the run (accept, unary); up to MaxDeviations probes of a   *)
(* run may be answered differently (another row count, a lost connection,  *)
(* an operator interrupt).                                                 *)
(***************************************************************************)
EXTENDS Integers, Sequences, FiniteSets, Bags, TLC

(***************************************************************************)
(* Bounds of the model.                                                    *)
(***************************************************************************)
\* number of code points of SamplePoints the run ranges over
NSample == 4
\* number of probes of one run the target may answer against its rule
MaxDeviations == 1
\* number of payloads of the WAF-evasion fuzzer's test lists that are run
NPayloads == 3

(***************************************************************************)
(* Code points.  The scripts range over range(0x10000), range(256) and     *)
(* range(128); the model ranges over the members of these ranges that are  *)
(* among the first NSample sample points, in the same (ascending) order.   *)
(*   9 = 0x09 TAB, 0 = 0x00 NUL, 32 = 0x20 SPACE, 55296 = 0xD800 (a lone   *)
(*   surrogate), 12288 = 0x3000 IDEOGRAPHIC SPACE, 43 = 0x2B '+'.          *)
(***************************************************************************)
SamplePoints == <<9, 0, 32, 55296, 12288, 43>>

Universe == {SamplePoints[k] : k \in 1..NSample}

\* range(0x10000), range(256), range(128), range(0x21)
RANGE_W1 == 65536
RANGE_BYTE == 256
RANGE_ASCII == 128
RANGE_CTRL == 33

Min(S) == CHOOSE x \in S : \A y \in S : x <= y

RECURSIVE Ascending(_)
Ascending(S) == IF S = {} THEN <<>>
                ELSE <<Min(S)>> \o Ascending(S \ {Min(S)})

\* Python range(n): 0, 1, .., n-1 in ascending order (sampled)
range(n) == Ascending({c \in Universe : c < n})

\* single_ws = {0x09, 0x0A, 0x0C, 0x0D, 0x20}  (sampled)
single_ws == {9, 10, 12, 13, 32} \cap Universe

\* Iteration order of the Python set single_ws.  CPython stores a small int
\* at slot hash(x) mod 8 = x mod 8 of an 8-slot table and iterates the table
\* by slot; the five members fall in distinct slots (0x20 -> 0, 0x09 -> 1,
\* 0x0A -> 2, 0x0C -> 4, 0x0D -> 5), so `for w in single_ws` yields
\* 0x20, 0x09, 0x0A, 0x0C, 0x0D.
SlotMin(S) == CHOOSE x \in S : \A y \in S : (x % 8) <= (y % 8)

RECURSIVE set_iter(_)
set_iter(S) == IF S = {} THEN <<>>
               ELSE <<SlotMin(S)>> \o set_iter(S \ {SlotMin(S)})

\* ws_chars = [0x09, 0x0A, 0x0C, 0x0D, 0x20], a list  (sampled)
ws_chars == Ascending({9, 10, 12, 13, 32} \cap Universe)

SeqToSet(s) == {s[k] : k \in 1..Len(s)}

\* one-element tuples of the members of a sequence
Singles(s) == [k \in 1..Len(s) |-> <<s[k]>>]

\* mutant: the last combination is left out
CrossShort(A, B) == [k \in 1..(Len(A) * Len(B) - 1) |->
                       A[((k - 1) \div Len(B)) + 1] \o B[((k - 1) % Len(B)) + 1]]

\* nested loops `for a in A: for b in B:` yield a + b, the inner loop
\* running fastest (itertools.product has the same order)
Cross(A, B) == [k \in 1..(Len(A) * Len(B)) |->
                  A[((k - 1) \div Len(B)) + 1] \o B[((k - 1) % Len(B)) + 1]]

AllKnown(combo) == \A k \in 1..Len(combo) : combo[k] \in single_ws

(***************************************************************************)
(* Candidate sequences of the width-1 and width-2 fuzzers.                 *)
(***************************************************************************)
\* for i in range(0x10000)
W1Range == range(RANGE_W1)

\* for i in range(256): for j in range(256)
W2Pairs == Cross(Singles(range(RANGE_BYTE)), Singles(range(RANGE_BYTE)))

(***************************************************************************)
(* Candidate sequences of the width-3 fuzzer.                              *)
(***************************************************************************)
\* the members of single_ws as one-element tuples, in set iteration order
WS1 == Singles(set_iter(single_ws))
WS2 == Cross(WS1, WS1)
WS3 == Cross(WS2, WS1)
WS4 == Cross(WS3, WS1)

\* test_bytes = [*range(0x21), 0x7F, 0xA0, 0x85]
test_bytes == range(RANGE_CTRL) \o SelectSeq(<<127, 160, 133>>, LAMBDA c : c \in Universe)


\* mutant: Phase 2 without the skip
W3SkipNone(combo) == FALSE

\* if all(c in single_ws for c in combo): continue
W3Skip(combo) == AllKnown(combo)

\* Phase 1: product(single_ws, repeat=3)
W3Phase1 == WS3

\* Phase 2: product(test_bytes, repeat=3) without the skipped combos
W3Phase2 == LET T == Singles(test_bytes)
            IN SelectSeq(Cross(Cross(T, T), T), LAMBDA combo : ~W3Skip(combo))

\* for b in range(256): if b in single_ws: continue
W3Wild == Singles(SelectSeq(range(RANGE_BYTE), LAMBDA b : ~(b \in single_ws)))

\* Phase 3: for ws1: for ws2: for b
W3Phase3 == Cross(WS2, W3Wild)
\* Phase 4: for ws1: for b: for ws2
W3Phase4 == Cross(Cross(WS1, W3Wild), WS1)
\* Phase 5: for b: for ws1: for ws2
W3Phase5 == Cross(W3Wild, WS2)

(***************************************************************************)
(* Candidate sequences of the width-4 fuzzer.                              *)
(***************************************************************************)
\* mutant: the list without the filter
non_ws_unfiltered == Singles(range(RANGE_ASCII))

\* non_ws = [b for b in range(128) if b not in single_ws]
non_ws == Singles(SelectSeq(range(RANGE_ASCII), LAMBDA b : ~(b \in single_ws)))

\* Phase 1: product(single_ws, repeat=4)
W4Phase1 == WS4
\* Phase 2: [x][ws][ws][ws]
W4Phase2 == Cross(non_ws, WS3)
\* Phase 3: [ws][x][ws][ws]
W4Phase3 == Cross(Cross(WS1, non_ws), WS2)
\* Phase 4: [ws][ws][x][ws]
W4Phase4 == Cross(Cross(WS2, non_ws), WS1)
\* Phase 5: [ws][ws][ws][x]
W4Phase5 == Cross(WS3, non_ws)
\* Phase 6: [x][x][ws][ws]
W4Phase6 == Cross(Cross(non_ws, non_ws), WS2)
\* Phase 7: [ws][ws][x][x]
W4Phase7 == Cross(WS2, Cross(non_ws, non_ws))
\* Phase 8: for b1: for w1: for b2: for w2, the loop variables (b1, w1, b2, w2)
W4Phase8 == Cross(Cross(Cross(non_ws, WS1), non_ws), WS1)
\* mutant: the second probe of Phase 8 keeps the order of the first
Swap8Same(t) == t

\* Phase 8, second probe: chr(w1) + chr(b1) + chr(w2) + chr(b2)
Swap8(t) == <<t[2], t[1], t[4], t[3]>>

(***************************************************************************)
(* The oracle (environment).                                               *)
(***************************************************************************)
Rows(r) == [exc |-> "none", rows |-> r]
Raise(e) == [exc |-> e, rows |-> <<>>]

\* a query string holding a lone surrogate cannot be encoded as UTF-8:
\* cursor.execute raises UnicodeEncodeError before anything is sent
Encodable(cand) == \A k \in 1..Len(cand) : ~(cand[k] \in 55296..57343)

\* exception classes that derive from psycopg2.Error
PsycopgErrors == {"SyntaxError", "OperationalError"}
\* exception classes that derive from Exception (KeyboardInterrupt does not)
Exceptions == PsycopgErrors \cup {"UnicodeEncodeError"}

\* lexicographic order of two tuples of the same length (Python tuple <)
LexLess(a, b) ==
  \E k \in 1..Len(a) : /\ a[k] < b[k]
                       /\ \A m \in 1..(k - 1) : a[m] = b[m]

LexMin(S) == CHOOSE x \in S : \A y \in S : x = y \/ LexLess(x, y)

\* k copies of x
Copies(x, k) == [m \in 1..k |-> x]

\* sorted(unexpected): the entries of the collection in ascending tuple order
RECURSIVE sorted(_)
sorted(B) == IF BagToSet(B) = {} THEN <<>>
             ELSE LET m == LexMin(BagToSet(B))
                  IN Copies(m, CopiesIn(m, B)) \o
                     sorted([x \in BagToSet(B) \ {m} |-> B[x]])

\* s[:n]
Take(s, n) == SubSeq(s, 1, IF Len(s) < n THEN Len(s) ELSE n)

VARIABLES
  fuzzer,              \* the script that runs
  pc,                  \* position in main()
  idx,                 \* index of the current candidate in the current loop
  accept,              \* code points the target lexes as whitespace
  unary,               \* code points the target accepts between SELECT and a value
  scan,                \* width 1: the sampled part of range(0x10000) the run visits
  known_ws,            \* width 2, 3, 4: the set bound to `single_ws`, {} before the assignment
  outfile,             \* WAF: the arguments of validate_outfile and what it did
  encoded,             \* the argument and the return value of the last url_encode_char call
  tested,              \* the arguments, the query's outcome and the result of the last PgFuzzer.test call
  deviations,          \* probes answered against the target's rule so far
  log,                 \* history: every probe issued, with its outcome
  valid_whitespace,    \* width 1: list
  valid_after_select,  \* width 1: list
  valid,               \* width 2: list of (i, j, both_known)
  expected,            \* width 2: list, built after the loop
  w2_unexpected,       \* width 2: list `unexpected`, built after the loop
  chars_in_valid,      \* width 2: set, built after the loop
  unique_bytes,        \* width 2: the list printed as "Unique bytes that appear in valid combinations"
  known_valid,         \* width 3, 4: counter
  unexpected,          \* width 3, 4: the set `unexpected`, as entries with multiplicity
  report,              \* width 3, 4: the table rows of the report
  single_valid,        \* HTTP: list
  comment_valid,       \* HTTP: list
  results,             \* WAF: the status marks appended to `results`
  last_call,           \* WAF: the arguments and response of the last test_payload call
  last,                \* WAF: the dict the last test_payload call returned
  sent,                \* WAF: the number of HTTP requests sent so far
  conn,                \* the database connection: "none", "open" or "closed"
  cur,                 \* the cursor: "none", "open" or "closed"
  startup,             \* the port argument and environment of the connection call, and its result
  canonical,           \* content of the file at the report path (outfile)
  fallback,            \* content of the file at the fallback path (outfile + ".partial")
  tmpfile,             \* content of the temporary file made by tempfile.mkstemp
  stderr_out,          \* TRUE once the whole report content was printed to stderr
  exit_code,           \* exit status of the process, -1 while it runs
  progress             \* history: the periodic progress messages printed so far

env == <<fuzzer, accept, unary, scan, known_ws, outfile, encoded, tested>>
w1vars == <<valid_whitespace, valid_after_select>>
w2vars == <<valid, expected, w2_unexpected, chars_in_valid, unique_bytes>>
w34vars == <<known_valid, unexpected, report>>
httpvars == <<single_valid, comment_valid>>
wafvars == <<results, last_call, last, sent>>
dbvars == <<conn, cur>>
iovars == <<canonical, fallback, tmpfile, stderr_out>>

vars == <<env, pc, idx, deviations, log, w1vars, w2vars, w34vars, httpvars, wafvars,
          dbvars, startup, iovars, exit_code, progress>>

\* what the target answers by its rule
BaseOutcome(tmpl, cand) ==
  IF ~Encodable(cand) THEN Raise("UnicodeEncodeError")
  ELSE IF tmpl = "union"
       THEN IF \A k \in 1..Len(cand) : cand[k] \in accept
            THEN Rows(<<1, 2>>) ELSE Raise("SyntaxError")
       ELSE IF cand[1] \in accept \cup unary
            THEN Rows(<<1>>) ELSE Raise("SyntaxError")

\* what a probe may be answered otherwise
\* (a lost connection, an operator interrupt, rows that fail the expectation)
Deviant(tmpl) ==
  {Raise("OperationalError"), Raise("KeyboardInterrupt")} \cup
  (IF tmpl = "union" THEN {Rows(<<1>>)} ELSE {Rows(<<2>>)})

Outcomes(tmpl, cand) ==
  {BaseOutcome(tmpl, cand)} \cup
  (IF Encodable(cand) /\ deviations < MaxDeviations THEN Deviant(tmpl) ELSE {})

\* cur.execute(query): one round trip, recorded in the history
Execute(ph, tmpl, cand, o) ==
  /\ o \in Outcomes(tmpl, cand)
  /\ log' = Append(log, [phase |-> ph, tmpl |-> tmpl, cand |-> cand, out |-> o])
  /\ deviations' = IF o = BaseOutcome(tmpl, cand) THEN deviations ELSE deviations + 1

(***************************************************************************)
(* Expectation predicates of the two templates.                            *)
(***************************************************************************)

\* mutant: any non-empty result counts as two rows
UnionExpectationLoose(o) == o.exc = "none" /\ Len(o.rows) >= 1

\* len(cur.fetchall()) == 2
UnionExpectation(o) == o.exc = "none" /\ Len(o.rows) = 2

\* result = cur.fetchone(); result and result[0] == 1
SelectExpectation(o) == o.exc = "none" /\ Len(o.rows) >= 1 /\ o.rows[1] = 1

\* except psycopg2.Error   (width 1, 3 and 4)
CatchesPsycopg(e) == e \in PsycopgErrors

\* except Exception   (width 2, HTTP)
CatchesException(e) == e \in Exceptions

\* an exception leaves the try statement of one probe: KeyboardInterrupt is
\* re-raised, any other exception the except clause does not name propagates
Escapes(o, caught) == o.exc = "KeyboardInterrupt" \/ (o.exc # "none" /\ ~caught)

\* finally: if cur: cur.close()   if conn: conn.close()
Close(c) == IF c = "open" THEN "closed" ELSE c

\* the finally clause of main() when an exception propagates out of the try
\* block: cursor and connection are closed and the process ends with a traceback
Finally(raised) ==
  /\ cur' = IF raised THEN Close(cur) ELSE cur
  /\ conn' = IF raised THEN Close(conn) ELSE conn
  /\ exit_code' = IF raised THEN 1 ELSE exit_code

\* mutant: a probe whose error was caught is executed again
AfterRetry(o, caught, here, next, last_iter) ==
  /\ Finally(Escapes(o, caught))
  /\ IF o.exc = "KeyboardInterrupt" THEN /\ pc' = "interrupted" /\ idx' = idx
     ELSE IF o.exc # "none" /\ ~caught THEN /\ pc' = "aborted" /\ idx' = idx
     ELSE IF o.exc # "none" THEN /\ pc' = pc /\ idx' = idx
     ELSE IF last_iter THEN /\ pc' = next /\ idx' = 1
     ELSE /\ pc' = here /\ idx' = idx + 1

\* where control goes after the try statement of one probe: the except
\* clauses, then the loop header; `finally` ends an interrupted or failed run
After(o, caught, here, next, last_iter) ==
  /\ Finally(Escapes(o, caught))
  /\ IF o.exc = "KeyboardInterrupt" THEN /\ pc' = "interrupted" /\ idx' = idx
     ELSE IF o.exc # "none" /\ ~caught THEN /\ pc' = "aborted" /\ idx' = idx
     ELSE IF last_iter THEN /\ pc' = next /\ idx' = 1
     ELSE /\ pc' = here /\ idx' = idx + 1

\* a periodic progress message: the count it states, and the number of
\* candidates of the phase probed when it is printed
Emit(cond, stated, probed) ==
  IF cond THEN Append(progress, [stated |-> stated, probed |-> probed]) ELSE progress

\* the value of the loop variable of `for i in range(n)` counts the
\* iterations before the current one: the members of the range below i
CountBelow(i, r) == Cardinality({k \in 1..Len(r) : r[k] < i})

(***************************************************************************)
(* Width 1: pg_whitespace_fuzzer.py                                        *)
(***************************************************************************)
\* Test 1: SELECT 1 UNION{char}SELECT 2
W1Union ==
  /\ fuzzer = "w1" /\ pc = "w1_union"
  /\ LET i == scan[idx] IN
     \E o \in Outcomes("union", <<i>>) :
       /\ Execute("w1", "union", <<i>>, o)
       /\ valid_whitespace' = IF UnionExpectation(o)
                              THEN Append(valid_whitespace, i)
                              ELSE valid_whitespace
       /\ Finally(Escapes(o, CatchesPsycopg(o.exc)))
       /\ IF o.exc = "KeyboardInterrupt" THEN pc' = "interrupted"
          ELSE IF o.exc # "none" /\ ~CatchesPsycopg(o.exc) THEN pc' = "aborted"
          ELSE pc' = "w1_select"
  /\ UNCHANGED <<env, idx, valid_after_select, w2vars, w34vars, httpvars, wafvars,
                 startup, iovars, progress>>


\* mutant: without the `not in valid_whitespace` test
W1AfterSelectAlways(i, o) ==
  IF SelectExpectation(o) THEN Append(valid_after_select, i) ELSE valid_after_select

\* if i not in valid_whitespace: valid_after_select.append(i)
W1AfterSelect(i, o) ==
  IF SelectExpectation(o) /\ ~(i \in SeqToSet(valid_whitespace))
  THEN Append(valid_after_select, i)
  ELSE valid_after_select

\* if i % 5000 == 0
W1_EVERY == 5000

\* Test 2: SELECT{char}1, then the next i
W1Select ==
  /\ fuzzer = "w1" /\ pc = "w1_select"
  /\ LET i == scan[idx] IN
     \E o \in Outcomes("select", <<i>>) :
       /\ Execute("w1", "select", <<i>>, o)
       /\ valid_after_select' = W1AfterSelect(i, o)
       /\ After(o, CatchesPsycopg(o.exc), "w1_union", "w1_report", idx = Len(scan))
       \* if i % 5000 == 0 and i > 0: print(f"  ...tested {i} characters")
       /\ progress' = Emit(~Escapes(o, CatchesPsycopg(o.exc)) /\ i % W1_EVERY = 0 /\ i > 0,
                           CountBelow(i, scan), idx)
  /\ UNCHANGED <<env, valid_whitespace, w2vars, w34vars, httpvars, wafvars, startup, iovars>>

\* the loop is over: finally closes cursor and connection, the two result
\* tables are printed, return 0
W1Report ==
  /\ fuzzer = "w1" /\ pc = "w1_report"
  /\ cur' = Close(cur) /\ conn' = Close(conn)
  /\ exit_code' = 0
  /\ pc' = "done"
  /\ UNCHANGED <<env, idx, deviations, log, w1vars, w2vars, w34vars, httpvars, wafvars,
                 startup, iovars, progress>>

(***************************************************************************)
(* Width 2: pg_whitespace_double_fuzzer.py                                 *)
(***************************************************************************)

\* mutant: `or` in place of `and`
BothKnownEither(i, j) == i \in known_ws \/ j \in known_ws

\* both_known = i in single_ws and j in single_ws
BothKnown(i, j) == i \in known_ws /\ j \in known_ws

\* if i % 16 == 0
W2_EVERY == 16

\* the number of j of one i: len(range(256))
W2RowLen == Len(range(RANGE_BYTE))

W2Probe ==
  /\ fuzzer = "w2" /\ pc = "w2_loop"
  /\ LET c == W2Pairs[idx] IN
     \E o \in Outcomes("union", c) :
       /\ Execute("w2", "union", c, o)
       /\ valid' = IF UnionExpectation(o)
                   THEN Append(valid, <<c[1], c[2], BothKnown(c[1], c[2])>>)
                   ELSE valid
       /\ After(o, CatchesException(o.exc), "w2_loop", "w2_report", idx = Len(W2Pairs))
       \* after the inner loop: if i % 16 == 0: print(f"  ...tested {i * 256} combinations")
       /\ progress' = Emit(/\ ~Escapes(o, CatchesException(o.exc))
                           /\ idx % W2RowLen = 0
                           /\ c[1] % W2_EVERY = 0,
                           CountBelow(c[1], range(RANGE_BYTE)) * W2RowLen, idx)
  /\ UNCHANGED <<env, w1vars, expected, w2_unexpected, chars_in_valid, unique_bytes,
                 w34vars, httpvars, wafvars, startup, iovars>>

\* mutant: the list in reverse order
W2ExpectedReversed(v) == LET sel == SelectSeq(v, LAMBDA t : t[3])
                         IN [k \in 1..Len(sel) |->
                              <<sel[Len(sel) + 1 - k][1], sel[Len(sel) + 1 - k][2]>>]

\* [(i, j) for i, j, both in valid if both]
W2Expected(v) == LET sel == SelectSeq(v, LAMBDA t : t[3])
                 IN [k \in 1..Len(sel) |-> <<sel[k][1], sel[k][2]>>]

\* [(i, j) for i, j, both in valid if not both]
W2Unexpected(v) == LET sel == SelectSeq(v, LAMBDA t : ~t[3])
                   IN [k \in 1..Len(sel) |-> <<sel[k][1], sel[k][2]>>]

\* mutant: only the pairs with a byte outside single_ws are looked at
W2CharsOfUnexpected(v) == {v[k][1] : k \in {m \in 1..Len(v) : ~v[m][3]}} \cup
                          {v[k][2] : k \in {m \in 1..Len(v) : ~v[m][3]}}

\* chars_in_valid.add(i); chars_in_valid.add(j)
W2CharsInValid(v) == {v[k][1] : k \in 1..Len(v)} \cup {v[k][2] : k \in 1..Len(v)}

W2Report ==
  /\ fuzzer = "w2" /\ pc = "w2_report"
  /\ expected' = W2Expected(valid)
  /\ w2_unexpected' = W2Unexpected(valid)
  /\ chars_in_valid' = W2CharsInValid(valid)
  \* print(f"... {sorted(chars_in_valid)}")
  /\ unique_bytes' = Ascending(W2CharsInValid(valid))
  /\ cur' = Close(cur) /\ conn' = Close(conn)
  /\ exit_code' = 0
  /\ pc' = "done"
  /\ UNCHANGED <<env, idx, deviations, log, w1vars, valid, w34vars, httpvars, wafvars,
                 startup, iovars, progress>>

(***************************************************************************)
(* Width 3 and width 4: the phases share one shape.                        *)
(***************************************************************************)

\* mutant: a list append in place of a set add
ListAppend(B, x) == B (+) SetToBag({x})

\* unexpected.add(combo) on a Python set
SetAdd(B, x) == IF BagIn(x, B) THEN B ELSE B (+) SetToBag({x})

\* Phase 1 of both scripts: known_valid += 1
KnownPhase(f, here, next, cands) ==
  /\ fuzzer = f /\ pc = here
  /\ LET combo == cands[idx] IN
     \E o \in Outcomes("union", combo) :
       /\ Execute(here, "union", combo, o)
       /\ known_valid' = IF UnionExpectation(o) THEN known_valid + 1 ELSE known_valid
       /\ After(o, CatchesPsycopg(o.exc), here, next, idx = Len(cands))
  /\ UNCHANGED <<env, w1vars, w2vars, unexpected, report, httpvars, wafvars,
                 startup, iovars, progress>>

\* width 3, Phase 2: if tested % 10000 == 0
W3_EVERY == 10000
\* width 4, Phase 6: if b1 % 20 == 0
W4_EVERY == 20

\* the progress message of the phases that print one: width 3 Phase 2 after
\* every W3_EVERY-th probe (tested), width 4 Phase 6 after the probes of a
\* b1 that is a multiple of W4_EVERY (count)
PhaseProgress(here, combo) ==
  CASE here = "w3_p2" -> Emit(idx % W3_EVERY = 0, idx, idx)
    [] here = "w4_p6" -> Emit(idx % (Len(non_ws) * Len(WS2)) = 0 /\ combo[1] % W4_EVERY = 0,
                              idx, idx)
    [] OTHER -> progress

\* the later phases: unexpected.add(combo)
UnexpectedPhase(f, here, next, cands) ==
  /\ fuzzer = f /\ pc = here
  /\ LET combo == cands[idx] IN
     \E o \in Outcomes("union", combo) :
       /\ Execute(here, "union", combo, o)
       /\ unexpected' = IF UnionExpectation(o) THEN SetAdd(unexpected, combo) ELSE unexpected
       /\ After(o, CatchesPsycopg(o.exc), here, next, idx = Len(cands))
       /\ progress' = IF Escapes(o, CatchesPsycopg(o.exc)) THEN progress
                      ELSE PhaseProgress(here, combo)
  /\ UNCHANGED <<env, w1vars, w2vars, known_valid, report, httpvars, wafvars, startup, iovars>>

W3P1 == KnownPhase("w3", "w3_p1", "w3_p2", W3Phase1)
W3P2 == UnexpectedPhase("w3", "w3_p2", "w3_p3", W3Phase2)
W3P3 == UnexpectedPhase("w3", "w3_p3", "w3_p4", W3Phase3)
W3P4 == UnexpectedPhase("w3", "w3_p4", "w3_p5", W3Phase4)
W3P5 == UnexpectedPhase("w3", "w3_p5", "w3_report", W3Phase5)

\* for i, j, k in sorted(unexpected)[:50]
W3_SHOWN == 50

W3Report ==
  /\ fuzzer \in {"w3", "w3_results"} /\ pc = "w3_report"
  /\ cur' = Close(cur) /\ conn' = Close(conn)
  /\ report' = Take(sorted(unexpected), W3_SHOWN)
  /\ exit_code' = 0
  /\ pc' = "done"
  /\ UNCHANGED <<env, idx, deviations, log, w1vars, w2vars, known_valid, unexpected,
                 httpvars, wafvars, startup, iovars, progress>>

W4P1 == KnownPhase("w4", "w4_p1", "w4_p2", W4Phase1)
W4P2 == UnexpectedPhase("w4", "w4_p2", "w4_p3", W4Phase2)
W4P3 == UnexpectedPhase("w4", "w4_p3", "w4_p4", W4Phase3)
W4P4 == UnexpectedPhase("w4", "w4_p4", "w4_p5", W4Phase4)
W4P5 == UnexpectedPhase("w4", "w4_p5", "w4_p6", W4Phase5)
W4P6 == UnexpectedPhase("w4", "w4_p6", "w4_p7", W4Phase6)
W4P7 == UnexpectedPhase("w4", "w4_p7", "w4_p8a", W4Phase7)

\* Phase 8, first probe of an iteration: (b1, w1, b2, w2)
W4P8a ==
  /\ fuzzer = "w4" /\ pc = "w4_p8a"
  /\ LET combo == W4Phase8[idx] IN
     \E o \in Outcomes("union", combo) :
       /\ Execute("w4_p8", "union", combo, o)
       /\ unexpected' = IF UnionExpectation(o) THEN SetAdd(unexpected, combo) ELSE unexpected
       /\ Finally(Escapes(o, CatchesPsycopg(o.exc)))
       /\ IF o.exc = "KeyboardInterrupt" THEN pc' = "interrupted"
          ELSE IF o.exc # "none" /\ ~CatchesPsycopg(o.exc) THEN pc' = "aborted"
          ELSE pc' = "w4_p8b"
  /\ UNCHANGED <<env, idx, w1vars, w2vars, known_valid, report, httpvars, wafvars,
                 startup, iovars, progress>>

\* Phase 8, second probe of an iteration: (w1, b1, w2, b2)
W4P8b ==
  /\ fuzzer = "w4" /\ pc = "w4_p8b"
  /\ LET combo == Swap8(W4Phase8[idx]) IN
     \E o \in Outcomes("union", combo) :
       /\ Execute("w4_p8", "union", combo, o)
       /\ unexpected' = IF UnionExpectation(o) THEN SetAdd(unexpected, combo) ELSE unexpected
       /\ After(o, CatchesPsycopg(o.exc), "w4_p8a", "w4_report", idx = Len(W4Phase8))
  /\ UNCHANGED <<env, w1vars, w2vars, known_valid, report, httpvars, wafvars,
                 startup, iovars, progress>>

\* the loops are over: finally closes cursor and connection;
\* unexpected_sorted = sorted(unexpected); one table row per combo
W4Report ==
  /\ fuzzer = "w4" /\ pc = "w4_report"
  /\ cur' = Close(cur) /\ conn' = Close(conn)
  /\ report' = sorted(unexpected)
  /\ pc' = "w4_write"
  /\ UNCHANGED <<env, idx, deviations, log, w1vars, w2vars, known_valid, unexpected,
                 httpvars, wafvars, startup, iovars, exit_code, progress>>

(***************************************************************************)
(* HTTP responses.                                                         *)
(***************************************************************************)
Object(u, e) == [shape |-> "object", users |-> u, error |-> e]
NonObject(s) == [shape |-> s, users |-> "absent", error |-> "absent"]

\* bodies: not JSON, JSON null, a JSON array, a JSON object whose "users" is
\* absent, a list of 0, 1 or 2 rows or a scalar and whose "error" is
\* absent, a string or a number
Bodies == {NonObject(s) : s \in {"nonjson", "null", "array"}} \cup
          {Object(u, e) : u \in {"absent", "list0", "list1", "list2", "scalar"},
                          e \in {"absent", "string", "number"}}

Response(b) == [exc |-> "none", body |-> b]
Fail(e) == [exc |-> e, body |-> NonObject("nonjson")]

\* requests.get / requests.post: a response, or Timeout, ConnectionError or an
\* operator interrupt
Responses == {Response(b) : b \in Bodies} \cup
             {Fail(e) : e \in {"Timeout", "ConnectionError", "KeyboardInterrupt"}}

UsersLen(u) == CASE u = "list0" -> 0 [] u = "list1" -> 1 [] u = "list2" -> 2

\* data = r.json(); "users" in data and len(data["users"]) >= 2
\* the value of the test, or the exception raised on the way
HttpValid(resp) ==
  IF resp.exc # "none" THEN resp.exc
  ELSE IF resp.body.shape = "nonjson" THEN "ValueError"
  ELSE IF resp.body.shape = "null" THEN "TypeError"
  ELSE IF resp.body.shape = "array" \/ resp.body.users = "absent" THEN "False"
  ELSE IF resp.body.users = "scalar" THEN "TypeError"
  ELSE IF UsersLen(resp.body.users) >= 2 THEN "True" ELSE "False"

\* what the web application answers by the target's rule
BaseResponse(cand) ==
  IF \A k \in 1..Len(cand) : cand[k] \in accept
  THEN Response(Object("list2", "absent"))
  ELSE Response(Object("absent", "string"))

\* what a request may be answered otherwise
HttpDeviant == {Response(Object("list1", "absent")), Response(NonObject("nonjson")),
                Fail("Timeout"), Fail("KeyboardInterrupt")}

HttpOutcomes(cand) ==
  {BaseResponse(cand)} \cup (IF deviations < MaxDeviations THEN HttpDeviant ELSE {})

\* requests.get(...): one round trip, recorded in the history
Request(ph, cand, r) ==
  /\ r \in HttpOutcomes(cand)
  /\ log' = Append(log, [phase |-> ph, tmpl |-> "http", cand |-> cand, out |-> r])
  /\ deviations' = IF r = BaseResponse(cand) THEN deviations ELSE deviations + 1

\* where control goes after the try statement of one request; an operator
\* interrupt ends the process with a traceback
HttpAfter(v, here, next, last_iter) ==
  /\ exit_code' = IF v = "KeyboardInterrupt" THEN 1 ELSE exit_code
  /\ IF v = "KeyboardInterrupt" THEN /\ pc' = "interrupted" /\ idx' = idx
     ELSE IF last_iter THEN /\ pc' = next /\ idx' = 1
     ELSE /\ pc' = here /\ idx' = idx + 1

(***************************************************************************)
(* HTTP whitespace fuzzer: pg_whitespace_http_fuzzer.py                    *)
(***************************************************************************)
\* for i in range(128)
HttpPhase1 == Singles(range(RANGE_ASCII))
\* for i in range(128): for j in ws_chars
HttpPhase2 == Cross(Singles(range(RANGE_ASCII)), Singles(ws_chars))
\* newline_tests: LF, CR, CRLF, LF LF, space LF, tab LF
newline_tests == <<(<<10>>), (<<13>>), <<13, 10>>, <<10, 10>>, <<32, 10>>, <<9, 10>>>>

\* "Verifying target connectivity": requests.get(f"{base_url}/users?id=1") and
\* r.json().  Timeout, ConnectionError and a body that is not JSON are
\* requests.RequestException: "ERROR: Cannot reach target", return 1 (a
\* requests release whose JSON error is a plain ValueError ends with a
\* traceback instead, exit status 1 as well)
HttpCheck ==
  /\ fuzzer = "http" /\ pc = "http_check"
  /\ \E r \in Responses :
       IF r.exc = "KeyboardInterrupt"
       THEN /\ pc' = "interrupted" /\ exit_code' = 1
       ELSE IF r.exc # "none" \/ r.body.shape = "nonjson"
       THEN /\ pc' = "fatal" /\ exit_code' = 1
       ELSE /\ pc' = "http_basic" /\ exit_code' = exit_code
  /\ UNCHANGED <<env, idx, deviations, log, w1vars, w2vars, w34vars, httpvars, wafvars,
                 dbvars, startup, iovars, progress>>

\* "Testing basic UNION injection": one request whose text is printed;
\* `except Exception` prints the error and goes on
HttpBasic ==
  /\ fuzzer = "http" /\ pc = "http_basic"
  /\ \E r \in Responses :
       IF r.exc = "KeyboardInterrupt"
       THEN /\ pc' = "interrupted" /\ exit_code' = 1
       ELSE /\ pc' = "http_p1" /\ exit_code' = exit_code
  /\ UNCHANGED <<env, idx, deviations, log, w1vars, w2vars, w34vars, httpvars, wafvars,
                 dbvars, startup, iovars, progress>>

\* Phase 1: 1{char}UNION{char}SELECT{char}1,...
HttpP1 ==
  /\ fuzzer = "http" /\ pc = "http_p1"
  /\ LET c == HttpPhase1[idx] IN
     \E r \in HttpOutcomes(c) :
       /\ Request("http_p1", c, r)
       /\ single_valid' = IF HttpValid(r) = "True" THEN Append(single_valid, c[1])
                          ELSE single_valid
       /\ HttpAfter(HttpValid(r), "http_p1", "http_p2", idx = Len(HttpPhase1))
  /\ UNCHANGED <<env, w1vars, w2vars, w34vars, comment_valid, wafvars,
                 dbvars, startup, iovars, progress>>

\* if i not in ws_chars: comment_valid.append((i, j))
OnlyUnexpected(i) == ~(i \in SeqToSet(ws_chars))

\* Phase 2: 1 UNION--{char1}{char2}SELECT ...
HttpP2 ==
  /\ fuzzer = "http" /\ pc = "http_p2"
  /\ LET c == HttpPhase2[idx] IN
     \E r \in HttpOutcomes(c) :
       /\ Request("http_p2", c, r)
       /\ comment_valid' = IF HttpValid(r) = "True" /\ OnlyUnexpected(c[1])
                           THEN Append(comment_valid, c)
                           ELSE comment_valid
       /\ HttpAfter(HttpValid(r), "http_p2", "http_p3", idx = Len(HttpPhase2))
  /\ UNCHANGED <<env, w1vars, w2vars, w34vars, single_valid, wafvars,
                 dbvars, startup, iovars, progress>>

\* Phase 3: the newline variations are printed, not recorded
HttpP3 ==
  /\ fuzzer = "http" /\ pc = "http_p3"
  /\ LET c == newline_tests[idx] IN
     \E r \in HttpOutcomes(c) :
       /\ Request("http_p3", c, r)
       /\ HttpAfter(HttpValid(r), "http_p3", "http_p4", idx = Len(newline_tests))
  /\ UNCHANGED <<env, w1vars, w2vars, w34vars, httpvars, wafvars,
                 dbvars, startup, iovars, progress>>

\* Phase 4: 1/**/UNION/**/SELECT/**/1,..., one request (PostgreSQL lexes a
\* block comment as whitespace); its result is a line of the report
HttpP4 ==
  /\ fuzzer = "http" /\ pc = "http_p4"
  /\ \E r \in HttpOutcomes(<<>>) :
       /\ Request("http_p4", <<>>, r)
       /\ HttpAfter(HttpValid(r), "http_p4", "http_write", TRUE)
  /\ UNCHANGED <<env, w1vars, w2vars, w34vars, httpvars, wafvars,
                 dbvars, startup, iovars, progress>>

(***************************************************************************)
(* WAF-evasion HTTP fuzzer: pg_waf_evasion_http_fuzzer.py                  *)
(***************************************************************************)
Success(keys, n) == [success |-> TRUE, keys |-> {"desc", "success"} \cup keys, count |-> n]
Failure == [success |-> FALSE, keys |-> {"desc", "success", "error"}, count |-> 0]

\* no call yet
NoResult == [success |-> FALSE, keys |-> {}, count |-> 0]

\* if endpoint == "/users": requests.get(url, params={param: payload})
\* else: requests.post(url, json={param: payload})
Sends(endpoint) == IF endpoint = "/users" THEN [method |-> "GET", payload_in |-> "params"]
                   ELSE [method |-> "POST", payload_in |-> "json"]

\* mutant: only the ValueError of r.json() is caught; an exception of the
\* request or of the look at the body leaves the function (no dict returned)
test_payload_uncaught(endpoint, resp) ==
  IF resp.exc # "none" THEN NoResult
  ELSE IF resp.body.shape = "nonjson" THEN Failure
  ELSE IF resp.body.shape = "null" THEN NoResult
  ELSE IF resp.body.users = "scalar" THEN NoResult
  ELSE IF resp.body.users # "absent"
       THEN Success({"count", "data"}, UsersLen(resp.body.users))
  ELSE IF resp.body.error = "number" THEN NoResult
  ELSE IF resp.body.error = "string" THEN Failure
  ELSE Success({"data"}, 0)

\* the return value of test_payload for one response of the application
test_payload(endpoint, resp) ==
  IF resp.exc # "none" THEN Failure                          \* except Exception
  ELSE IF resp.body.shape = "nonjson" THEN Failure           \* except ValueError
  ELSE IF resp.body.shape = "null" THEN Failure              \* "users" in None: TypeError
  ELSE IF resp.body.users = "scalar" THEN Failure            \* len(5): TypeError
  ELSE IF resp.body.users # "absent"
       THEN Success({"count", "data"}, UsersLen(resp.body.users))
  ELSE IF resp.body.error = "number" THEN Failure            \* 5[:50]: TypeError
  ELSE IF resp.body.error = "string" THEN Failure
  ELSE Success({"data"}, 0)

\* one call test_payload(endpoint, param, payload, desc) with any endpoint and
\* any answer to its request; an operator interrupt leaves the function
TestPayload ==
  /\ fuzzer = "utils" /\ pc = "start"
  \* main() passes "/users" only
  /\ \E endpoint \in {"/users", "/login", "/search"}, resp \in Responses :
       /\ last_call' = [endpoint |-> endpoint, request |-> Sends(endpoint), resp |-> resp]
       /\ IF resp.exc = "KeyboardInterrupt"
          THEN /\ pc' = "interrupted" /\ last' = last
          ELSE /\ pc' = "returned" /\ last' = test_payload(endpoint, resp)
  /\ sent' = sent + 1
  /\ UNCHANGED <<env, idx, deviations, log, w1vars, w2vars, w34vars, httpvars, results,
                 dbvars, startup, iovars, exit_code, progress>>

\* status = ok if r["success"] and r.get("count", 0) >= 1
Status(r) == IF r.success /\ "count" \in r.keys /\ r.count >= 1 THEN "ok" ELSE "no"

\* a path: absolute or relative, and its components ("a/b".split(os.sep))
RelPath(parts) == [abs |-> FALSE, parts |-> parts]
AbsPath(parts) == [abs |-> TRUE, parts |-> parts]

\* the current working directory and the directories that exist under it
Cwd == <<"home", "user">>
Dirs == {Cwd, Cwd \o <<"out">>}

\* os.path.normpath: "." components are dropped (a ".." component never
\* reaches it: validate_outfile has rejected the path before)
normpath(p) == [abs |-> p.abs, parts |-> SelectSeq(p.parts, LAMBDA c : c # ".")]

\* os.path.abspath: a relative path is joined to the working directory
abspath(p) == IF p.abs THEN p ELSE AbsPath(Cwd \o p.parts)

\* os.path.dirname
dirname(p) == [abs |-> p.abs, parts |-> SubSeq(p.parts, 1, Len(p.parts) - 1)]

\* os.path.isdir
isdir(p) == abspath(p).parts \in Dirs

\* mutant: the check for an existing file is left out
validate_outfile_overwrites(path, force, exists) ==
  LET normalized == normpath(path)
      abs_path == abspath(normalized)
  IN IF path.abs THEN [exit |-> TRUE, path |-> path]
     ELSE IF ".." \in SeqToSet(path.parts) THEN [exit |-> TRUE, path |-> path]
     \* not abs_path.startswith(cwd + os.sep) and abs_path != cwd, dirname(abs_path) != cwd
     ELSE IF /\ ~(Len(abs_path.parts) > Len(Cwd) /\ SubSeq(abs_path.parts, 1, Len(Cwd)) = Cwd)
             /\ abs_path.parts # Cwd /\ dirname(abs_path).parts # Cwd
          THEN [exit |-> TRUE, path |-> path]
     ELSE IF ~isdir(dirname(normalized)) THEN [exit |-> TRUE, path |-> path]
     ELSE [exit |-> FALSE, path |-> normalized]

\* validate_outfile(path, force): the normalized path, or sys.exit(1).
\* `exists` is os.path.exists(normalized).
validate_outfile(path, force, exists) ==
  LET normalized == normpath(path)
      abs_path == abspath(normalized)
  IN IF path.abs THEN [exit |-> TRUE, path |-> path]
     ELSE IF ".." \in SeqToSet(path.parts) THEN [exit |-> TRUE, path |-> path]
     \* not abs_path.startswith(cwd + os.sep) and abs_path != cwd, dirname(abs_path) != cwd
     ELSE IF /\ ~(Len(abs_path.parts) > Len(Cwd) /\ SubSeq(abs_path.parts, 1, Len(Cwd)) = Cwd)
             /\ abs_path.parts # Cwd /\ dirname(abs_path).parts # Cwd
          THEN [exit |-> TRUE, path |-> path]
     ELSE IF ~isdir(dirname(normalized)) THEN [exit |-> TRUE, path |-> path]
     ELSE IF exists /\ ~force THEN [exit |-> TRUE, path |-> path]
     ELSE [exit |-> FALSE, path |-> normalized]

\* command lines of the WAF-evasion fuzzer: the default name, a name in an
\* existing and in a missing directory, names with "." and "..", an absolute name
OutfileArgs ==
  {RelPath(<<"results.txt">>), RelPath(<<"out", "results.txt">>),
   RelPath(<<".", "results.txt">>), RelPath(<<"missing", "results.txt">>),
   RelPath(<<"..", "results.txt">>), RelPath(<<"out", "..", "results.txt">>),
   AbsPath(<<"tmp", "results.txt">>)}

\* main(): force = "--force" in args; outfile = validate_outfile(outfile_arg, force)
WafValidate ==
  /\ fuzzer = "waf" /\ pc = "waf_validate"
  /\ \E arg \in OutfileArgs, force \in BOOLEAN :
       LET r == validate_outfile(arg, force, canonical # "absent") IN
       /\ outfile' = [arg |-> arg, force |-> force, existed |-> canonical # "absent",
                      result |-> IF r.exit THEN "exit" ELSE "returned", path |-> r.path]
       /\ IF r.exit THEN /\ pc' = "fatal" /\ exit_code' = 1
          ELSE /\ pc' = "waf_baseline" /\ exit_code' = exit_code
  /\ UNCHANGED <<tested, fuzzer, accept, unary, scan, known_ws, encoded, idx, deviations, log, w1vars, w2vars,
                 w34vars, httpvars, wafvars, dbvars, startup, iovars, progress>>

\* "Verify app is running": requests.get(f"{BASE_URL}/users?id=1"); r.json();
\* except Exception: print the error, sys.exit(1)
WafBaseline ==
  /\ fuzzer = "waf" /\ pc = "waf_baseline"
  /\ sent' = sent + 1
  /\ \E resp \in Responses :
       IF resp.exc = "KeyboardInterrupt" THEN /\ pc' = "interrupted" /\ exit_code' = 1
       ELSE IF resp.exc # "none" \/ resp.body.shape = "nonjson"
            THEN /\ pc' = "fatal" /\ exit_code' = 1
       ELSE /\ pc' = "waf_tests" /\ exit_code' = exit_code
  /\ UNCHANGED <<env, idx, deviations, log, w1vars, w2vars, w34vars, httpvars,
                 results, last_call, last, dbvars, startup, iovars, progress>>

\* one `r = test_payload("/users", "id", payload, desc)` of the test lists
WafTest ==
  /\ fuzzer = "waf" /\ pc = "waf_tests"
  /\ \E resp \in Responses :
       /\ last_call' = [endpoint |-> "/users", request |-> Sends("/users"), resp |-> resp]
       /\ sent' = sent + 1
       /\ IF resp.exc = "KeyboardInterrupt"
          THEN /\ pc' = "interrupted" /\ exit_code' = 1
               /\ UNCHANGED <<idx, results, last>>
          ELSE /\ last' = test_payload("/users", resp)
               /\ exit_code' = exit_code
               /\ results' = Append(results, Status(test_payload("/users", resp)))
               /\ IF idx = NPayloads THEN /\ pc' = "waf_write" /\ idx' = 1
                  ELSE /\ pc' = "waf_tests" /\ idx' = idx + 1
  /\ UNCHANGED <<env, deviations, log, w1vars, w2vars, w34vars, httpvars,
                 dbvars, startup, iovars, progress>>

(***************************************************************************)
(* Connection set-up: fuzzer_utils.get_pg_connection, PgFuzzer.__init__.   *)
(***************************************************************************)
\* values of the `port` argument: None, an int, a str
None == [kind |-> "None", val |-> 0, text |-> ""]
IntVal(n) == [kind |-> "int", val |-> n, text |-> ""]
StrVal(t) == [kind |-> "str", val |-> 0, text |-> t]

\* an environment variable that is not set
UNSET == "<unset>"

\* the default port
DEFAULT_PORT == 5432

\* int(x): an int as it is, a str by its decimal value, ValueError for a str
\* that is not a decimal literal
int(x) ==
  IF x.kind = "int" THEN [exc |-> "none", val |-> x.val]
  ELSE IF x.kind = "None" THEN [exc |-> "TypeError", val |-> 0]
  ELSE CASE x.text = "5433" -> [exc |-> "none", val |-> 5433]
         [] x.text = "6543" -> [exc |-> "none", val |-> 6543]
         [] OTHER -> [exc |-> "ValueError", val |-> 0]

\* what a connection call comes to: the exception it raises, or the port it
\* hands to psycopg2.connect
Raises(e) == [exc |-> e, db_port |-> 0]
ConnectTo(n) == [exc |-> "none", db_port |-> n]

\* mutant: without the PGPASSWORD test
get_pg_connection_any_password(port, environ) ==
  LET db_port == IF port.kind # "None" THEN int(port)
                 ELSE IF environ.PGPORT # UNSET THEN int(StrVal(environ.PGPORT))
                 ELSE [exc |-> "none", val |-> DEFAULT_PORT]
  IN IF db_port.exc # "none" THEN Raises("ValueError")
     ELSE ConnectTo(db_port.val)

\* get_pg_connection(port): port parameter > PGPORT > 5432; ValueError for a
\* port that is no integer and for a missing or empty PGPASSWORD
get_pg_connection(port, environ) ==
  LET db_port == IF port.kind # "None" THEN int(port)
                 ELSE IF environ.PGPORT # UNSET THEN int(StrVal(environ.PGPORT))
                 ELSE [exc |-> "none", val |-> DEFAULT_PORT]
  IN IF db_port.exc # "none" THEN Raises("ValueError")
     ELSE IF environ.PGPASSWORD \in {UNSET, ""} THEN Raises("ValueError")
     ELSE ConnectTo(db_port.val)

\* PgFuzzer.__init__(port): port = int(os.environ.get("PGPORT", port))
PgFuzzer(port, environ) ==
  LET p == int(IF environ.PGPORT # UNSET THEN StrVal(environ.PGPORT) ELSE port)
  IN IF p.exc # "none" THEN Raises(p.exc)
     ELSE IF environ.PGPASSWORD \in {UNSET, ""} THEN Raises("ValueError")
     ELSE ConnectTo(p.val)

\* the environments and port arguments the calls are checked with
Environs == [PGPORT : {UNSET, "6543", "abc"}, PGPASSWORD : {UNSET, "", "secret"}]
PortArgs == {None, IntVal(5433), StrVal("5433"), StrVal("abc"), StrVal("")}

\* no connection call yet
NotCalled == [port |-> None, environ |-> [PGPORT |-> UNSET, PGPASSWORD |-> UNSET],
              exc |-> "notcalled", db_port |-> 0]

Called(port, environ, r) ==
  [port |-> port, environ |-> environ, exc |-> r.exc, db_port |-> r.db_port]

Fuzzers == {"w1", "w2", "w3", "w4", "http", "waf", "comp", "utils", "w3_results"}

WidthFuzzers == {"w1", "w2", "w3", "w4"}

\* the first loop of a script
Start(f) == CASE f = "w1" -> "w1_union"
              [] f = "w2" -> "w2_loop"
              [] f = "w3" -> "w3_p1"
              [] f = "w4" -> "w4_p1"
              [] f = "http" -> "http_p1"
              [] f = "waf" -> "waf_tests"
              [] f = "comp" -> "comp_tests"

\* mutant: the width-4 script leaves the space out of its set
SingleWsDiffers(f) == IF f = "w4" THEN single_ws \ {32} ELSE single_ws

\* single_ws = {0x09, 0x0A, 0x0C, 0x0D, 0x20}: the same literal in the three
\* scripts.  Nothing assigns the name again, and no statement calls add,
\* remove, discard, update or clear on the set.
SingleWs(f) == single_ws

\* the width fuzzers: conn = get_pg_connection(port); cur = conn.cursor();
\* cur.execute("SELECT version()").  The scripts pass an int (5432 unless the
\* command line names a port).  An exception here leaves the try block:
\* finally closes what was opened, no probe is issued.
Connect ==
  /\ fuzzer \in WidthFuzzers /\ pc = "start"
  /\ \E environ \in {e \in Environs : e.PGPORT = UNSET},
        server \in {"up", "down", "version_fails"} :
       LET port == IntVal(DEFAULT_PORT)
           r == get_pg_connection(port, environ)
           \* width 2 binds single_ws before the try statement
           early == IF fuzzer = "w2" THEN SingleWs(fuzzer) ELSE known_ws
       IN IF r.exc # "none"
          THEN /\ startup' = Called(port, environ, r)
               /\ pc' = "fatal" /\ exit_code' = 1
               /\ known_ws' = early
               /\ UNCHANGED dbvars
          ELSE IF server = "down"
          THEN /\ startup' = Called(port, environ, Raises("OperationalError"))
               /\ pc' = "fatal" /\ exit_code' = 1
               /\ known_ws' = early
               /\ UNCHANGED dbvars
          ELSE IF server = "version_fails"
          THEN /\ startup' = Called(port, environ, r)
               /\ conn' = "closed" /\ cur' = "closed"
               /\ pc' = "fatal" /\ exit_code' = 1
               /\ known_ws' = early
          ELSE /\ startup' = Called(port, environ, r)
               /\ conn' = "open" /\ cur' = "open"
               /\ pc' = Start(fuzzer) /\ exit_code' = exit_code
               \* width 3 and 4 bind single_ws after SELECT version();
               \* width 1 has no such set
               /\ known_ws' = IF fuzzer = "w1" THEN known_ws ELSE SingleWs(fuzzer)
  /\ UNCHANGED <<tested, fuzzer, accept, unary, scan, outfile, encoded, idx, deviations, log, w1vars, w2vars,
                 w34vars, httpvars, wafvars, iovars, progress>>

\* one call of get_pg_connection(port) with any port argument and environment
GetPgConnection ==
  /\ fuzzer = "utils" /\ pc = "start"
  /\ \E port \in PortArgs, environ \in Environs :
       LET r == get_pg_connection(port, environ) IN
       /\ startup' = Called(port, environ, r)
       /\ conn' = IF r.exc = "none" THEN "open" ELSE conn
  /\ pc' = "returned"
  /\ UNCHANGED <<env, idx, deviations, log, w1vars, w2vars, w34vars, httpvars, wafvars,
                 cur, iovars, exit_code, progress>>

(***************************************************************************)
(* fuzzer_utils.url_encode_char.  A string is a tuple of characters.       *)
(***************************************************************************)
HexDigits == <<"0", "1", "2", "3", "4", "5", "6", "7", "8", "9", "A", "B", "C", "D", "E", "F">>

\* format(n, "X"): the uppercase hexadecimal digits of n, no leading zero
RECURSIVE UpperHex(_)
UpperHex(n) == IF n < 16 THEN <<HexDigits[n + 1]>>
               ELSE UpperHex(n \div 16) \o <<HexDigits[(n % 16) + 1]>>

\* f"{n:0wX}": padded with zeros on the left to w characters at least
ZeroPadX(n, w) == LET d == UpperHex(n)
                  IN IF Len(d) >= w THEN d ELSE [k \in 1..(w - Len(d)) |-> "0"] \o d

\* if code_point < 0x100: return f"%{code_point:02X}"
\* return f"%u{code_point:04X}"
url_encode_char(code_point) ==
  IF code_point < 256 THEN <<"%">> \o ZeroPadX(code_point, 2)
  ELSE <<"%", "u">> \o ZeroPadX(code_point, 4)

\* code points the function is called with: both ends of the ASCII range, of
\* the range 0x80..0xFF and of the rest of 0x0000..0xFFFF, and members of each
CodePoints == {0, 9, 32, 127, 128, 133, 160, 255, 256, 8232, 12288, 55296, 65535}

\* one call of url_encode_char(code_point)
UrlEncodeChar ==
  /\ fuzzer = "utils" /\ pc = "start"
  /\ \E cp \in CodePoints :
       encoded' = [called |-> TRUE, code_point |-> cp, text |-> url_encode_char(cp)]
  /\ pc' = "returned"
  /\ UNCHANGED <<tested, fuzzer, accept, unary, scan, known_ws, outfile, idx, deviations, log,
                 w1vars, w2vars, w34vars, httpvars, wafvars, dbvars, startup, iovars,
                 exit_code, progress>>

(***************************************************************************)
(* Comprehensive fuzzer: pg_comprehensive_fuzzer.py                        *)
(***************************************************************************)
\* main(): port = int(sys.argv[1]) if len(sys.argv) > 1 else 5432;
\* fuzzer = PgFuzzer(port); `except Exception` prints the error, sys.exit(1).
\* PgFuzzer.__init__ connects, opens the cursor and runs SELECT version().
CompInit ==
  /\ fuzzer = "comp" /\ pc = "start"
  /\ \E argv \in {None, StrVal("5433")}, environ \in Environs, server \in {"up", "down"} :
       LET port == IF argv = None THEN IntVal(DEFAULT_PORT) ELSE IntVal(int(argv).val)
           r == PgFuzzer(port, environ)
       IN IF r.exc # "none"
          THEN /\ startup' = Called(port, environ, r)
               /\ pc' = "fatal" /\ exit_code' = 1
               /\ UNCHANGED dbvars
          ELSE IF server = "down"
          THEN /\ startup' = Called(port, environ, Raises("OperationalError"))
               /\ pc' = "fatal" /\ exit_code' = 1
               /\ UNCHANGED dbvars
          ELSE /\ startup' = Called(port, environ, r)
               /\ conn' = "open" /\ cur' = "open"
               /\ pc' = Start(fuzzer) /\ exit_code' = exit_code
  /\ UNCHANGED <<env, idx, deviations, log, w1vars, w2vars, w34vars, httpvars, wafvars,
                 iovars, progress>>

\* str(n) of a non-negative int: its decimal digits
\* (the decimal digits are the first ten hexadecimal digits)
RECURSIVE Decimal(_)
Decimal(n) == IF n < 10 THEN HexDigits[n + 1] ELSE Decimal(n \div 10) \o HexDigits[(n % 10) + 1]

\* str(v) of None, an int, a str
str(v) == CASE v.kind = "None" -> "None"
            [] v.kind = "int" -> Decimal(v.val)
            [] v.kind = "str" -> v.text

\* what self.cur.execute(query) and self.cur.fetchone() come to: an
\* exception, a statement without a result set (cur.description is None), a
\* result set without rows (fetchone() is None), a first row
\* kinds "exc", "nodesc", "norows", "row"; the first column of the first row
\* is an int, a str or SQL NULL (None)
Raised(e) == [kind |-> "exc", exc |-> e, first |-> None]
Ran(kind, v) == [kind |-> kind, exc |-> "none", first |-> v]

QueryOutcomes == {Raised(e) : e \in Exceptions} \cup
                 {Ran("nodesc", None), Ran("norows", None)} \cup
                 {Ran("row", v) : v \in {IntVal(1), StrVal("1"), StrVal("admin"), None}}

\* PgFuzzer.test(name, query, expected): value = result[0] if result else None;
\* if expected is not None: success = (str(value) == str(expected));
\* except Exception: success False and the error text
test(outcome, expected_arg) ==
  IF outcome.kind = "exc"
  THEN [success |-> FALSE, keys |-> {"success", "error", "query", "name"}, value |-> None]
  ELSE LET value == IF outcome.kind = "row" THEN outcome.first ELSE None
           success == IF expected_arg # None THEN str(value) = str(expected_arg) ELSE TRUE
       IN [success |-> success, keys |-> {"success", "value", "query", "name"}, value |-> value]

\* one call fuzzer.test(name, query, expected) with any expected value and any
\* outcome of the query
PgFuzzerTest ==
  /\ fuzzer = "utils" /\ pc = "start"
  \* expected: None when omitted, an int, a str
  /\ \E outcome \in QueryOutcomes,
        expected_arg \in {None, IntVal(1), StrVal("1"), StrVal("admin"), StrVal("None")} :
       tested' = [called |-> TRUE, outcome |-> outcome, expected |-> expected_arg,
                  result |-> test(outcome, expected_arg)]
  /\ pc' = "returned"
  /\ UNCHANGED <<fuzzer, accept, unary, scan, known_ws, outfile, encoded, idx, deviations, log,
                 w1vars, w2vars, w34vars, httpvars, wafvars, dbvars, startup, iovars,
                 exit_code, progress>>

\* one r = fuzzer.test(desc, query) of the fuzz_* functions (no call passes
\* `expected`); results.append((desc, r["success"], ...)).  An operator
\* interrupt is not caught by anything: the process ends, close() is not reached
CompTest ==
  /\ fuzzer = "comp" /\ pc = "comp_tests"
  /\ \E outcome \in QueryOutcomes \cup {Raised("KeyboardInterrupt")} :
       IF outcome.exc = "KeyboardInterrupt"
       THEN /\ pc' = "interrupted" /\ exit_code' = 1
            /\ UNCHANGED <<idx, results, tested>>
       ELSE /\ tested' = [called |-> TRUE, outcome |-> outcome, expected |-> None,
                          result |-> test(outcome, None)]
            /\ results' = Append(results, IF test(outcome, None).success THEN "ok" ELSE "no")
            /\ exit_code' = exit_code
            /\ IF idx = NPayloads THEN /\ pc' = "comp_close" /\ idx' = 1
               ELSE /\ pc' = "comp_tests" /\ idx' = idx + 1
  /\ UNCHANGED <<fuzzer, accept, unary, scan, known_ws, outfile, encoded, deviations, log,
                 w1vars, w2vars, w34vars, httpvars, last_call, last,
                 sent, dbvars, startup, iovars, progress>>

\* fuzzer.close(): self.cur.close(); self.conn.close()
CompClose ==
  /\ fuzzer = "comp" /\ pc = "comp_close"
  /\ cur' = Close(cur) /\ conn' = Close(conn)
  /\ pc' = "comp_write"
  /\ UNCHANGED <<env, idx, deviations, log, w1vars, w2vars, w34vars, httpvars, wafvars,
                 startup, iovars, exit_code, progress>>

\* os.makedirs(outdir); fd, tmpfile = tempfile.mkstemp(dir=outdir or '.')
CompMkstemp ==
  /\ fuzzer = "comp" /\ pc = "comp_write"
  /\ \E r \in {"ok", "OSError"} :
       IF r = "ok"
       THEN /\ tmpfile' = "empty" /\ pc' = "comp_writing" /\ exit_code' = exit_code
       ELSE /\ tmpfile' = tmpfile /\ pc' = "exited" /\ exit_code' = 1
  /\ UNCHANGED <<env, idx, deviations, log, w1vars, w2vars, w34vars, httpvars, wafvars,
                 dbvars, startup, canonical, fallback, stderr_out, progress>>

\* the report is written to the temporary file, flushed and fsynced; on an
\* exception the temporary file is removed and the process exits with 1
CompWriteTmp ==
  /\ fuzzer = "comp" /\ pc = "comp_writing"
  /\ \E r \in {"ok", "OSError"} :
       IF r = "ok"
       THEN /\ tmpfile' = "new" /\ pc' = "comp_replace" /\ exit_code' = exit_code
       ELSE /\ tmpfile' = "absent" /\ pc' = "exited" /\ exit_code' = 1
  /\ UNCHANGED <<env, idx, deviations, log, w1vars, w2vars, w34vars, httpvars, wafvars,
                 dbvars, startup, canonical, fallback, stderr_out, progress>>

\* os.replace(tmpfile, outfile): the rename puts the whole file in place
CompReplace ==
  /\ fuzzer = "comp" /\ pc = "comp_replace"
  /\ \E r \in {"ok", "OSError"} :
       IF r = "ok"
       THEN /\ canonical' = tmpfile /\ tmpfile' = "absent" /\ exit_code' = 0
       ELSE /\ canonical' = canonical /\ tmpfile' = "absent" /\ exit_code' = 1
  /\ pc' = "exited"
  /\ UNCHANGED <<env, idx, deviations, log, w1vars, w2vars, w34vars, httpvars, wafvars,
                 dbvars, startup, fallback, stderr_out, progress>>

(***************************************************************************)
(* Report files written in place: width 4, HTTP whitespace, WAF evasion.   *)
(***************************************************************************)
InPlace == {"w4", "http", "waf"}

\* mutant: width 4 writes the report when an interrupt ends the run
WritePcInterrupted(f) == CASE f = "w4" -> "interrupted" [] f = "http" -> "http_write"
                           [] f = "waf" -> "waf_write"

WritePc(f) == CASE f = "w4" -> "w4_write" [] f = "http" -> "http_write" [] f = "waf" -> "waf_write"

\* what an interrupted or failed write leaves in the file
Torn == {"empty", "partial"}

\* the except clause of the write to outfile.  Width 4 and HTTP go on to
\* outfile + ".partial"; the WAF fuzzer prints the report to stderr and
\* main() returns 1, which `main()` at module level drops: exit status 0.
WriteFailed ==
  IF fuzzer = "waf"
  THEN /\ stderr_out' = TRUE /\ exit_code' = 0 /\ pc' = "exited"
  ELSE /\ stderr_out' = stderr_out /\ exit_code' = exit_code /\ pc' = "fallback"

\* open(outfile, "w", encoding="utf-8"): the file is created or truncated
OpenOutfile ==
  /\ fuzzer \in InPlace /\ pc = WritePc(fuzzer)
  /\ \E r \in {"ok", "OSError"} :
       IF r = "ok"
       THEN /\ canonical' = "empty" /\ pc' = "writing"
            /\ UNCHANGED <<stderr_out, exit_code>>
       ELSE /\ canonical' = canonical /\ WriteFailed
  /\ UNCHANGED <<env, idx, deviations, log, w1vars, w2vars, w34vars, httpvars, wafvars,
                 dbvars, startup, fallback, tmpfile, progress>>

\* f.write(content); f.flush(); os.fsync(f.fileno()); the file is closed;
\* return 0 (the WAF fuzzer: return 0, dropped)
WriteOutfile ==
  /\ fuzzer \in InPlace /\ pc = "writing"
  /\ \E r \in {"ok", "OSError"} :
       IF r = "ok"
       THEN /\ canonical' = "new" /\ pc' = "exited" /\ exit_code' = 0
            /\ UNCHANGED stderr_out
       ELSE /\ canonical' \in Torn /\ WriteFailed
  /\ UNCHANGED <<env, idx, deviations, log, w1vars, w2vars, w34vars, httpvars, wafvars,
                 dbvars, startup, fallback, tmpfile, progress>>

\* open(outfile + ".partial", "w"); on OSError an error line is printed to
\* stderr and main() returns 1
OpenFallback ==
  /\ fuzzer \in {"w4", "http"} /\ pc = "fallback"
  /\ \E r \in {"ok", "OSError"} :
       IF r = "ok"
       THEN /\ fallback' = "empty" /\ pc' = "fb_writing" /\ exit_code' = exit_code
       ELSE /\ fallback' = fallback /\ pc' = "exited" /\ exit_code' = 1
  /\ UNCHANGED <<env, idx, deviations, log, w1vars, w2vars, w34vars, httpvars, wafvars,
                 dbvars, startup, canonical, tmpfile, stderr_out, progress>>

\* the same write to the fallback file: write_ok = True, return 0; on
\* OSError an error line is printed to stderr and main() returns 1
WriteFallback ==
  /\ fuzzer \in {"w4", "http"} /\ pc = "fb_writing"
  /\ \E r \in {"ok", "OSError"} :
       IF r = "ok"
       THEN /\ fallback' = "new" /\ exit_code' = 0
       ELSE /\ fallback' \in Torn /\ exit_code' = 1
  /\ pc' = "exited"
  /\ UNCHANGED <<env, idx, deviations, log, w1vars, w2vars, w34vars, httpvars, wafvars,
                 dbvars, startup, canonical, tmpfile, stderr_out, progress>>

\* the process is killed (or the machine stops) while a file is written
Crash ==
  /\ pc \in {"writing", "fb_writing", "comp_writing", "comp_replace"}
  /\ canonical' \in IF pc = "writing" THEN Torn ELSE {canonical}
  /\ fallback' \in IF pc = "fb_writing" THEN Torn ELSE {fallback}
  /\ tmpfile' \in IF pc = "comp_writing" THEN Torn ELSE {tmpfile}
  /\ pc' = "crashed"
  /\ exit_code' = 1
  /\ UNCHANGED <<env, idx, deviations, log, w1vars, w2vars, w34vars, httpvars, wafvars,
                 dbvars, startup, stderr_out, progress>>

(***************************************************************************)
(* Specification.                                                          *)
(***************************************************************************)
\* where main() begins
Begin(f) == CASE f \in WidthFuzzers \cup {"comp", "utils"} -> "start"
              [] f = "w3_results" -> "w3_report"
              [] f = "http" -> "http_check"
              [] f = "waf" -> "waf_validate"

\* Width 3 at the end of Phase 5, after a target confirmed n candidates
\* (0x09, 0x20, b) of Phase 3, b = 0x21, 0x22, ...: the set `unexpected` and
\* the probes that filled it.  The sampled runs confirm fewer candidates than
\* one report table shows; these states reach the RESULTS section with more.
ManyProbes(n) ==
  [k \in 1..n |-> [phase |-> "w3_p3", tmpl |-> "union", cand |-> <<9, 32, 32 + k>>,
                   out |-> Rows(<<1, 2>>)]]

\* the sampled bytes
ByteSample == {c \in Universe : c < RANGE_BYTE}

\* the lexical rules a run is checked against: any set of reference whitespace,
\* or all of the reference whitespace and any other bytes
Rules == {S \in SUBSET ByteSample : single_ws \subseteq S \/ S \subseteq single_ws}

Init ==
  /\ fuzzer \in Fuzzers
  /\ pc = Begin(fuzzer)
  /\ idx = 1
  /\ accept \in IF fuzzer \in {"waf", "comp", "utils", "w3_results"} THEN {{}} ELSE Rules
  /\ unary \in IF fuzzer = "w1" THEN SUBSET (ByteSample \ accept) ELSE {{}}
  /\ scan \in IF fuzzer = "w1"
              THEN {SubSeq(W1Range, 1, m) : m \in (Len(W1Range) - 1)..Len(W1Range)}
              ELSE {<<>>}
  /\ known_ws = IF fuzzer = "w3_results" THEN SingleWs("w3") ELSE {}
  /\ outfile = [arg |-> RelPath(<<>>), force |-> FALSE, existed |-> FALSE,
                result |-> "notcalled", path |-> RelPath(<<>>)]
  /\ encoded = [called |-> FALSE, code_point |-> 0, text |-> <<>>]
  /\ tested = [called |-> FALSE, outcome |-> Ran("norows", None), expected |-> None,
               result |-> [success |-> FALSE, keys |-> {}, value |-> None]]
  /\ deviations = 0
  /\ log \in IF fuzzer = "w3_results"
             THEN {ManyProbes(n) : n \in (W3_SHOWN - 1)..(W3_SHOWN + 1)}
             ELSE {<<>>}
  /\ valid_whitespace = <<>>
  /\ valid_after_select = <<>>
  /\ valid = <<>>
  /\ expected = <<>>
  /\ w2_unexpected = <<>>
  /\ chars_in_valid = {}
  /\ unique_bytes = <<>>
  /\ known_valid = 0
  /\ unexpected = IF fuzzer = "w3_results"
                  THEN SetToBag({log[k].cand : k \in 1..Len(log)}) ELSE EmptyBag
  /\ report = <<>>
  /\ single_valid = <<>>
  /\ comment_valid = <<>>
  /\ results = <<>>
  /\ last_call = [endpoint |-> "", request |-> [method |-> "", payload_in |-> ""],
                  resp |-> Fail("none")]
  /\ last = NoResult
  /\ sent = 0
  /\ conn = IF fuzzer = "w3_results" THEN "open" ELSE "none"
  /\ cur = IF fuzzer = "w3_results" THEN "open" ELSE "none"
  /\ startup = NotCalled
  /\ canonical \in IF fuzzer \in {"waf", "comp"} THEN {"absent", "previous"}
                    ELSE IF fuzzer \in {"w4", "http"} THEN {"previous"} ELSE {"absent"}
  /\ fallback = "absent"
  /\ tmpfile = "absent"
  /\ stderr_out = FALSE
  /\ exit_code = -1
  /\ progress = <<>>

Next ==
  \/ Connect
  \/ GetPgConnection
  \/ UrlEncodeChar
  \/ TestPayload
  \/ PgFuzzerTest
  \/ CompInit
  \/ CompTest
  \/ CompClose
  \/ CompMkstemp
  \/ CompWriteTmp
  \/ CompReplace
  \/ OpenOutfile
  \/ WriteOutfile
  \/ OpenFallback
  \/ WriteFallback
  \/ Crash
  \/ HttpCheck
  \/ HttpBasic
  \/ HttpP4
  \/ W1Union
  \/ W1Select
  \/ W1Report
  \/ W2Probe
  \/ W2Report
  \/ W3P1
  \/ W3P2
  \/ W3P3
  \/ W3P4
  \/ W3P5
  \/ W3Report
  \/ W4P1
  \/ W4P2
  \/ W4P3
  \/ W4P4
  \/ W4P5
  \/ W4P6
  \/ W4P7
  \/ W4P8a
  \/ W4P8b
  \/ W4Report
  \/ HttpP1
  \/ HttpP2
  \/ HttpP3
  \/ WafValidate
  \/ WafBaseline
  \/ WafTest

Spec == Init /\ [][Next]_vars

(***************************************************************************)
(* Properties.                                                             *)
(***************************************************************************)
\* the reference whitespace characters {0x09, 0x0A, 0x0C, 0x0D, 0x20}
KnownWhitespaceSet == {9, 10, 12, 13, 32}

AllReference(c) == \A k \in 1..Len(c) : c[k] \in KnownWhitespaceSet

NoDuplicates(s) == \A a, b \in 1..Len(s) : a # b => s[a] # s[b]

\* the probes of the history that returned exactly two rows / one row with column 0 = 1
TwoRows(e) == e.tmpl = "union" /\ e.out.exc = "none" /\ Len(e.out.rows) = 2
OneIsOne(e) == e.tmpl = "select" /\ e.out.exc = "none" /\ Len(e.out.rows) = 1 /\ e.out.rows[1] = 1

Probes(P(_)) == {k \in 1..Len(log) : P(log[k])}
Times(tmpl, cand) == Cardinality({k \in 1..Len(log) : log[k].tmpl = tmpl /\ log[k].cand = cand})

\* C1: a probe that fails with anything but an operator interrupt does not
\* end the run: the loop goes on (the run is never aborted by a probe's fault).
C1_ProbeFaultNeverAborts ==
  (log # <<>> /\ log[Len(log)].out.exc \notin {"none", "KeyboardInterrupt"})
    => pc # "aborted"

\* C2: a probe that fails with an infrastructure fault (connection lost,
\* timeout, malformed response) leaves a record in the results of the run;
\* it is not dropped the way a syntax rejection is.
InfraFault(r) == \/ r.exc \in {"OperationalError", "Timeout", "ConnectionError"}
                 \/ (r.exc = "none" /\ "body" \in DOMAIN r /\ r.body.shape = "nonjson")

C2_InfraFaultRecorded ==
  [][(Len(log') = Len(log) + 1 /\ InfraFault(log'[Len(log')].out))
       => <<w1vars, w2vars, w34vars, httpvars>>' # <<w1vars, w2vars, w34vars, httpvars>>]_vars

\* C3: every entry of a Confirmed collection comes from a probe of that
\* candidate that ran without error and whose rows met the template's
\* expectation (two rows for UNION{c}SELECT, one row with column 0 = 1 for
\* SELECT{c}1); known_valid counts exactly the Phase 1 probes that did.
C3_ConfirmedSound ==
  /\ \A i \in SeqToSet(valid_whitespace) :
       \E k \in Probes(TwoRows) : log[k].cand = <<i>>
  /\ \A i \in SeqToSet(valid_after_select) :
       \E k \in Probes(OneIsOne) : log[k].cand = <<i>>
  /\ \A t \in SeqToSet(valid) :
       \E k \in Probes(TwoRows) : log[k].cand = <<t[1], t[2]>>
  /\ \A c \in BagToSet(unexpected) :
       \E k \in Probes(TwoRows) : log[k].cand = c
  /\ fuzzer \in {"w3", "w4"} =>
       known_valid = Cardinality({k \in Probes(TwoRows) : log[k].phase \in {"w3_p1", "w4_p1"}})
  /\ fuzzer \in {"w1", "w2"} =>
       Len(valid_whitespace) + Len(valid) = Cardinality(Probes(TwoRows))

\* C3 witness: a width-2 run recorded a pair, after a probe that returned one
\* row and a probe that raised an error.
C3_Witness ==
  /\ fuzzer = "w2" /\ Len(valid) >= 1
  /\ \E k \in 1..Len(log) : log[k].out = Rows(<<1>>)
  /\ \E k \in 1..Len(log) : log[k].out.exc = "SyntaxError"

C5_UnexpectedHasSurprise ==
  /\ \A c \in BagToSet(unexpected) : ~AllReference(c)
  /\ \A k \in 1..Len(report) : ~AllReference(report[k])
  /\ \A k \in 1..Len(w2_unexpected) : ~AllReference(w2_unexpected[k])
  /\ \A k \in 1..Len(comment_valid) : ~AllReference(comment_valid[k])

\* C5 witness: a width-3 run confirmed all-reference candidates and recorded
\* an unexpected one.
C5_Witness ==
  /\ fuzzer = "w3" /\ pc = "done"
  /\ known_valid >= 1 /\ report # <<>>
  /\ \E k \in Probes(TwoRows) : AllReference(log[k].cand)

\* C6: after the width-2 run, expected and unexpected are disjoint, together
\* they are the Confirmed pairs, and a Confirmed pair is expected iff both
\* its bytes are in KnownWhitespaceSet.
C6_W2Partition ==
  (fuzzer = "w2" /\ pc = "done") =>
    LET confirmed == {log[k].cand : k \in Probes(TwoRows)} IN
    /\ SeqToSet(expected) \cap SeqToSet(w2_unexpected) = {}
    /\ SeqToSet(expected) \cup SeqToSet(w2_unexpected) = confirmed
    /\ \A c \in confirmed : c \in SeqToSet(expected) <=> AllReference(c)

\* C6 witness: a finished width-2 run with an expected and an unexpected pair,
\* one of them with one reference byte only.
C6_Witness ==
  /\ fuzzer = "w2" /\ pc = "done"
  /\ expected # <<>>
  /\ \E k \in 1..Len(w2_unexpected) :
       \E m \in 1..2 : w2_unexpected[k][m] \in KnownWhitespaceSet

\* C7: within a phase of a width fuzzer the candidates of one template are
\* probed in strictly ascending lexicographic order.
C7_AscendingOrder ==
  fuzzer \in WidthFuzzers =>
    \A a, b \in 1..Len(log) :
      (a < b /\ log[a].phase = log[b].phase /\ log[a].tmpl = log[b].tmpl)
        => LexLess(log[a].cand, log[b].cand)

\* C8: a width-1 run that ends without an operator interrupt has probed
\* every code point of its range exactly once with each template; a
\* finished width-2 run has probed every ordered pair exactly once.
C8_Exhaustive ==
  /\ (fuzzer = "w1" /\ pc \in {"done", "aborted"}) =>
       \A i \in SeqToSet(scan) : Times("union", <<i>>) = 1 /\ Times("select", <<i>>) = 1
  /\ (fuzzer = "w2" /\ pc \in {"done", "aborted"}) =>
       \A i, j \in ByteSample : Times("union", <<i, j>>) = 1

\* C9: in the width-1 run the true-whitespace list and the unary-operator
\* list are disjoint; a code point is in the unary-operator list iff its
\* SELECT{c}1 probe was Confirmed and its UNION{c}SELECT probe was not, and
\* in the true-whitespace list iff its UNION{c}SELECT probe was Confirmed.
C9_UnaryNotWhitespace ==
  fuzzer = "w1" =>
    /\ SeqToSet(valid_whitespace) \cap SeqToSet(valid_after_select) = {}
    /\ \A i \in SeqToSet(scan) :
         /\ i \in SeqToSet(valid_after_select) <=>
              /\ \E k \in Probes(OneIsOne) : log[k].cand = <<i>>
              /\ ~(\E k \in Probes(TwoRows) : log[k].cand = <<i>>)
         /\ i \in SeqToSet(valid_whitespace) <=>
              \E k \in Probes(TwoRows) : log[k].cand = <<i>>

\* C9 witness: a width-1 run that found a true whitespace character, whose
\* SELECT{c}1 probe was Confirmed too, and a unary operator.
C9_Witness ==
  /\ fuzzer = "w1" /\ pc \in {"done", "aborted"}
  /\ valid_after_select # <<>>
  /\ \E i \in SeqToSet(valid_whitespace) :
       \E k \in Probes(OneIsOne) : log[k].cand = <<i>>

\* C10: test_payload maps a body with a "users" list to success, a body with
\* "error" and no "users" to failure, and a body that is not JSON or is a
\* JSON object with neither key to failure.
C10_OracleMapping ==
  (fuzzer = "waf" /\ last_call.endpoint # "" /\ last_call.resp.exc = "none") =>
    LET b == last_call.resp.body IN
    /\ (b.shape = "object" /\ b.users \in {"list0", "list1", "list2"}) => last.success
    /\ (b.shape = "object" /\ b.users = "absent" /\ b.error = "string") => ~last.success
    /\ b.shape = "nonjson" => ~last.success
    /\ (b.shape = "object" /\ b.users = "absent" /\ b.error = "absent") => ~last.success

\* the positions of main() after which the process does nothing more
Terminal == {"done", "interrupted", "aborted", "fatal", "exited", "crashed"}

\* C11: at every moment, also after a crash or an I/O error at any step of
\* the write, the report path holds the whole previous report, the whole new
\* report or no file; never an empty or cut-off one.
C11_AtomicReportWrite == canonical \in {"absent", "previous", "new"}

\* C12: a fuzzer that writes a report file ends with exit status 0 if the
\* report is in the file at the report path or at the fallback path, and
\* with a non-zero status if it is in neither.
C12_ExitStatusReflectsPersistence ==
  (fuzzer \in InPlace \cup {"comp"} /\ pc = "exited") =>
    (exit_code = 0 <=> (canonical = "new" \/ fallback = "new"))

\* C13: when the write to the report path fails, the report ends up in the
\* fallback file or, failing that, whole on stderr: after the run the
\* collected results are in one of the three places.
C13_PersistenceFallback ==
  (fuzzer \in InPlace /\ pc = "exited") =>
    (canonical = "new" \/ fallback = "new" \/ stderr_out)

\* the strings int() reads as a decimal number
DecimalLiterals == {"5433", "6543"}

\* the port the caller's argument and the environment name is no integer
BadPort(c) == \/ c.port.kind = "str" /\ c.port.text \notin DecimalLiterals
              \/ /\ c.port.kind = "None"
                 /\ c.environ.PGPORT \notin DecimalLiterals \cup {UNSET}

\* C14: get_pg_connection raises ValueError, and opens no connection, when
\* PGPASSWORD is unset or empty or the port is no integer (and only then); a
\* width fuzzer whose connection call raised issues no probe; an HTTP
\* whitespace run whose connectivity check failed ends with a non-zero
\* status, no probe issued and no report file touched.
C14_ConfigFaultsFatal ==
  /\ startup.exc \notin {"notcalled", "OperationalError"} /\ fuzzer # "comp" =>
       LET bad == startup.environ.PGPASSWORD \in {UNSET, ""} \/ BadPort(startup)
       IN /\ bad => (startup.exc = "ValueError" /\ conn = "none")
          /\ ~bad => startup.exc = "none"
  /\ (fuzzer \in WidthFuzzers /\ startup.exc # "none") =>
       (log = <<>> /\ (startup.exc # "notcalled" => pc = "fatal" /\ exit_code = 1))
  /\ (fuzzer = "http" /\ pc = "fatal") =>
       /\ exit_code = 1 /\ log = <<>>
       /\ canonical = "previous" /\ fallback = "absent"

\* C14 witness: a width-4 run stopped at the connection call because
\* PGPASSWORD is empty.
C14_Witness ==
  /\ fuzzer = "w4" /\ pc = "fatal"
  /\ startup.environ.PGPASSWORD = "" /\ startup.exc = "ValueError"

\* a port argument named by the caller (main() of the comprehensive fuzzer
\* passes 5432 when the command line names no port)
PortSupplied ==
  /\ startup.port.kind # "None"
  /\ fuzzer = "comp" => startup.port.val # DEFAULT_PORT

PortNumber(x) == IF x.kind = "int" THEN x.val
                 ELSE IF x.text = "5433" THEN 5433 ELSE 6543

\* C15: the connection goes to the caller's port argument when there is one,
\* to PGPORT when there is none, and to 5432 when there is neither.
C15_PortPrecedence ==
  startup.exc = "none" =>
    startup.db_port =
      IF PortSupplied THEN PortNumber(startup.port)
      ELSE IF startup.environ.PGPORT # UNSET THEN PortNumber(StrVal(startup.environ.PGPORT))
      ELSE DEFAULT_PORT

\* C16: when a database fuzzer has ended (normally, by operator interrupt or
\* by an exception nothing caught) its cursor and connection are closed; the
\* probe an interrupt arrived in is the last probe of the run.
C16_ClosedOnEveryPath ==
  /\ (fuzzer \in WidthFuzzers \cup {"comp"} /\ pc \in Terminal) =>
       (conn # "open" /\ cur # "open")
  /\ (fuzzer \in WidthFuzzers /\ log # <<>>) =>
       \A k \in 1..(Len(log) - 1) : log[k].out.exc # "KeyboardInterrupt"
  /\ (fuzzer \in WidthFuzzers /\ log # <<>> /\ conn = "closed") => pc \in Terminal \cup {"w4_write", "writing", "fallback", "fb_writing"}

\* C17: a progress message states the number of candidates of the phase
\* probed when it is printed.
C17_ProgressCount ==
  \A k \in 1..Len(progress) : progress[k].stated = progress[k].probed

\* C18: a candidate is sent to the target once per generation: the probe
\* just issued differs from every earlier probe of its phase and template,
\* whatever those came to; the WAF fuzzer has made one test_payload call per
\* result.
C18_NoRetry ==
  /\ \A a \in 1..(Len(log) - 1) :
       LET b == Len(log) IN
       (log[a].phase = log[b].phase /\ log[a].tmpl = log[b].tmpl)
         => log[a].cand # log[b].cand
  /\ (fuzzer = "waf" /\ pc = "waf_tests") => Len(results) = idx - 1

\* C18 witness: a width-2 run went on after a probe that lost the connection
\* and after a probe the target rejected.
C18_Witness ==
  /\ fuzzer = "w2"
  /\ \E k \in 1..(Len(log) - 1) : log[k].out.exc = "OperationalError"
  /\ \E k \in 1..(Len(log) - 1) : log[k].out.exc = "SyntaxError"

\* what the target's rule says of a candidate of the UNION template
RuleAccepts(c) == Encodable(c) /\ \A k \in 1..Len(c) : c[k] \in accept

Increasing(s) == \A k \in 1..(Len(s) - 1) : s[k] < s[k + 1]
LexIncreasing(s) == \A k \in 1..(Len(s) - 1) : LexLess(s[k], s[k + 1])

\* the candidates of the phases that fill `unexpected`
Unexpected3 == SeqToSet(W3Phase2) \cup SeqToSet(W3Phase3) \cup SeqToSet(W3Phase4)
                 \cup SeqToSet(W3Phase5)
Unexpected4 == SeqToSet(W4Phase2) \cup SeqToSet(W4Phase3) \cup SeqToSet(W4Phase4)
                 \cup SeqToSet(W4Phase5) \cup SeqToSet(W4Phase6) \cup SeqToSet(W4Phase7)
                 \cup SeqToSet(W4Phase8) \cup {Swap8(t) : t \in SeqToSet(W4Phase8)}

\* the positions of the width-4 run after its last phase
W4Complete == {"w4_report", "w4_write", "writing", "fallback", "fb_writing", "exited", "crashed"}

\* C19: the results of a complete run against a target that answers every
\* probe by its rule are a function of the rule alone: each Confirmed list is
\* the set of candidates the rule accepts, in ascending order, the
\* expected/unexpected split and the known_valid tally likewise; so two such
\* runs give the same report.
C19_Deterministic ==
  deviations = 0 =>
    /\ (fuzzer = "w1" /\ pc = "done") =>
         /\ Increasing(valid_whitespace) /\ Increasing(valid_after_select)
         /\ SeqToSet(valid_whitespace) = {i \in SeqToSet(scan) : RuleAccepts(<<i>>)}
         /\ SeqToSet(valid_after_select) = {i \in SeqToSet(scan) : Encodable(<<i>>) /\ i \in unary}
    /\ (fuzzer = "w2" /\ pc = "done") =>
         /\ LexIncreasing(expected) /\ LexIncreasing(w2_unexpected)
         /\ SeqToSet(expected) = {c \in SeqToSet(W2Pairs) : RuleAccepts(c) /\ AllReference(c)}
         /\ SeqToSet(w2_unexpected) = {c \in SeqToSet(W2Pairs) : RuleAccepts(c) /\ ~AllReference(c)}
         /\ chars_in_valid = {b \in ByteSample : \E c \in SeqToSet(W2Pairs) :
                                 RuleAccepts(c) /\ b \in {c[1], c[2]}}
    /\ (fuzzer = "w3" /\ pc = "done") =>
         /\ known_valid = Cardinality({c \in SeqToSet(W3Phase1) : RuleAccepts(c)})
         /\ LexIncreasing(report)
         /\ Cardinality({c \in Unexpected3 : RuleAccepts(c)}) <= W3_SHOWN =>
              SeqToSet(report) = {c \in Unexpected3 : RuleAccepts(c)}
    /\ (fuzzer = "w4" /\ pc \in W4Complete \ {"w4_report"}) =>
         /\ known_valid = Cardinality({c \in SeqToSet(W4Phase1) : RuleAccepts(c)})
         /\ LexIncreasing(report)
         /\ SeqToSet(report) = {c \in Unexpected4 : RuleAccepts(c)}

\* C19 witness: a finished width-2 run, every probe answered by the rule, with
\* two expected and two unexpected pairs.
C19_Witness ==
  /\ fuzzer = "w2" /\ pc = "done" /\ deviations = 0
  /\ Len(expected) >= 2 /\ Len(w2_unexpected) >= 2

\* the number of reference whitespace characters the run ranges over (5 in
\* the scripts: 25 pairs, 125 triples, 625 quadruples)
RefCount == Cardinality(single_ws)

\* C20: against a target that accepts every sequence of reference whitespace
\* and answers every probe by that rule, a complete run confirms them all:
\* width 1 has every reference character in the true-whitespace list, width 2
\* has every reference pair as expected, width 3 ends with known_valid =
\* RefCount^3 and width 4 with known_valid = RefCount^4.
C20_ReferenceConfirmed ==
  (single_ws \subseteq accept /\ deviations = 0) =>
    /\ (fuzzer = "w1" /\ pc \in {"w1_report", "done"}) =>
         single_ws \subseteq SeqToSet(valid_whitespace)
    /\ (fuzzer = "w2" /\ pc = "done") =>
         /\ \A a, b \in single_ws : <<a, b>> \in SeqToSet(expected)
         /\ Len(expected) = RefCount * RefCount
    /\ (fuzzer = "w3" /\ pc \in {"w3_report", "done"}) =>
         known_valid = RefCount * RefCount * RefCount
    /\ (fuzzer = "w4" /\ pc \in W4Complete) =>
         known_valid = RefCount * RefCount * RefCount * RefCount

\* C20 witness: a complete width-4 run against such a target, with more than
\* one reference character in range, that also found unexpected candidates.
C20_Witness ==
  /\ fuzzer = "w4" /\ pc = "exited" /\ deviations = 0
  /\ single_ws \subseteq accept /\ RefCount >= 2
  /\ known_valid = RefCount * RefCount * RefCount * RefCount
  /\ report # <<>>

\* C21: every candidate recorded in `unexpected` during a run appears in the
\* table of that run's report exactly once, however many there are
\* (width 3 after its RESULTS section, width 4 once the rows are built).
C21_ReportComplete ==
  /\ (fuzzer \in {"w3", "w3_results"} /\ pc = "done") =>
       \A c \in BagToSet(unexpected) :
         Cardinality({k \in 1..Len(report) : report[k] = c}) = 1
  /\ (fuzzer = "w4" /\ pc \in {"w4_write", "writing", "fallback", "fb_writing", "exited"}) =>
       \A c \in BagToSet(unexpected) :
         Cardinality({k \in 1..Len(report) : report[k] = c}) = 1

\* C22: in the width-2, width-3 and width-4 fuzzers the reference set is bound
\* before the first probe and is the same set afterwards, whatever the probes
\* return: the members of KnownWhitespaceSet, as in the list of the HTTP fuzzer.
C22_ReferenceSetFrozen ==
  /\ known_ws \in {{}, KnownWhitespaceSet \cap Universe}
  /\ (fuzzer \in {"w2", "w3", "w4"} /\ log # <<>>) => known_ws = KnownWhitespaceSet \cap Universe
  /\ SeqToSet(ws_chars) = KnownWhitespaceSet \cap Universe

\* C22 witness: a width-4 run went through all phases, recorded unexpected
\* candidates and had a probe fail, and the set is the reference set.
C22_Witness ==
  /\ fuzzer = "w4" /\ pc = "w4_write" /\ report # <<>>
  /\ \E k \in 1..Len(log) : log[k].out.exc = "OperationalError"
  /\ known_ws = KnownWhitespaceSet \cap Universe

\* C23: after the width-2 run the list of unique bytes holds exactly the bytes
\* that are the first or the second byte of a Confirmed pair, each once, in
\* ascending order.
C23_UniqueBytes ==
  (fuzzer = "w2" /\ pc = "done") =>
    /\ SeqToSet(unique_bytes) =
         {b \in ByteSample : \E k \in Probes(TwoRows) : b = log[k].cand[1] \/ b = log[k].cand[2]}
    /\ Increasing(unique_bytes)

\* C23 witness: a finished width-2 run that lists two bytes or more, one of
\* them not a reference character, after a Confirmed pair of reference bytes.
C23_Witness ==
  /\ fuzzer = "w2" /\ pc = "done"
  /\ Len(unique_bytes) >= 2
  /\ \E k \in 1..Len(unique_bytes) : unique_bytes[k] \notin KnownWhitespaceSet
  /\ expected # <<>>

\* the candidates of width n made of reference characters only
Reference3 == {<<a, b, c>> : a, b, c \in KnownWhitespaceSet \cap Universe}
Reference4 == {<<a, b, c, d>> : a, b, c, d \in KnownWhitespaceSet \cap Universe}

\* C24: in a width-3 or width-4 run a candidate made of reference characters
\* only is probed in Phase 1 and in no later sub-phase, at most once, and
\* exactly once when Phase 1 has run to its end; known_valid never exceeds
\* the number of such candidates (125 and 625 with the five characters).
C24_ReferencePruned ==
  (fuzzer \in {"w3", "w4"} /\ log # <<>>) =>
    LET e == log[Len(log)]
        Reference == IF fuzzer = "w3" THEN Reference3 ELSE Reference4
    IN \* the probe just issued: only Phase 1 probes such a candidate, and not twice
       /\ AllReference(e.cand) =>
            /\ e.phase \in {"w3_p1", "w4_p1"}
            /\ \A k \in 1..(Len(log) - 1) : log[k].cand # e.cand
       \* the first probe after Phase 1: each such candidate was probed once
       /\ (Len(log) > 1 /\ e.phase \notin {"w3_p1", "w4_p1"}
            /\ log[Len(log) - 1].phase \in {"w3_p1", "w4_p1"}) =>
            \A c \in Reference : Times("union", c) = 1
       /\ known_valid <= Cardinality(Reference)

\* C24 witness: a width-4 run reached its last phase with two reference
\* characters in range, all sixteen reference candidates Confirmed.
C24_Witness ==
  /\ fuzzer = "w4" /\ pc = "w4_p8b"
  /\ Cardinality(Reference4) >= 16
  /\ known_valid = Cardinality(Reference4)

\* C25: validate_outfile returns a path only if the argument is relative, has
\* no ".." component and names a file in an existing directory under the
\* working directory, and, without --force, only if no file exists there: a
\* file that existed is never written to without --force.  When it rejects
\* the argument the process ends with status 1 and no HTTP request was sent.
C25_OutfileValidated ==
  (fuzzer = "waf" /\ outfile.result # "notcalled") =>
    LET parts == outfile.arg.parts
        dir == SelectSeq(SubSeq(parts, 1, Len(parts) - 1), LAMBDA c : c # ".")
    IN /\ outfile.result = "returned" =>
            /\ ~outfile.arg.abs
            /\ \A k \in 1..Len(parts) : parts[k] # ".."
            /\ Cwd \o dir \in Dirs
            /\ outfile.existed => outfile.force
       /\ outfile.result = "exit" => (pc = "fatal" /\ exit_code = 1 /\ sent = 0)
       /\ (outfile.existed /\ ~outfile.force) => canonical = "previous"

\* C25 witness: without --force a name in an existing subdirectory was
\* accepted, no file was there, and the report has been written to it.
C25_Witness ==
  /\ fuzzer = "waf" /\ pc = "exited" /\ canonical = "new"
  /\ outfile.result = "returned" /\ ~outfile.force /\ ~outfile.existed
  /\ outfile.path = RelPath(<<"out", "results.txt">>)

\* the number a string of uppercase hexadecimal digits writes, -1 if it is
\* not such a string
HexDigitValue(ch) == IF \E d \in 0..15 : HexDigits[d + 1] = ch
                     THEN CHOOSE d \in 0..15 : HexDigits[d + 1] = ch ELSE -1
RECURSIVE HexNumber(_)
HexNumber(t) == IF t = <<>> THEN 0
                ELSE IF HexDigitValue(t[Len(t)]) < 0 \/ HexNumber(SubSeq(t, 1, Len(t) - 1)) < 0
                THEN -1
                ELSE 16 * HexNumber(SubSeq(t, 1, Len(t) - 1)) + HexDigitValue(t[Len(t)])

\* C26: url_encode_char returns "%" and two uppercase hexadecimal digits for
\* an ASCII code point (below 0x80), "%u" and four uppercase hexadecimal
\* digits for every code point above the ASCII range up to 0xFFFF, the digits
\* writing the code point; distinct code points have distinct encodings.
C26_UrlEncodeForm ==
  encoded.called =>
    LET cp == encoded.code_point
        t == encoded.text
    IN /\ cp < 128 => /\ Len(t) = 3 /\ t[1] = "%"
                       /\ HexNumber(SubSeq(t, 2, 3)) = cp
       /\ cp >= 128 => /\ Len(t) = 6 /\ t[1] = "%" /\ t[2] = "u"
                        /\ HexNumber(SubSeq(t, 3, 6)) = cp
       /\ \A other \in CodePoints : other # cp => url_encode_char(other) # t

\* the slot pattern of a candidate: "w" where the byte is a reference
\* character, "x" where it is not
Slots(c) == [k \in 1..Len(c) |-> IF c[k] \in KnownWhitespaceSet THEN "w" ELSE "x"]

\* the slot patterns of the eight width-4 sub-phases
SlotPatterns(phase) ==
  CASE phase = "w4_p1" -> {<<"w", "w", "w", "w">>}
    [] phase = "w4_p2" -> {<<"x", "w", "w", "w">>}
    [] phase = "w4_p3" -> {<<"w", "x", "w", "w">>}
    [] phase = "w4_p4" -> {<<"w", "w", "x", "w">>}
    [] phase = "w4_p5" -> {<<"w", "w", "w", "x">>}
    [] phase = "w4_p6" -> {<<"x", "x", "w", "w">>}
    [] phase = "w4_p7" -> {<<"w", "w", "x", "x">>}
    [] phase = "w4_p8" -> {<<"x", "w", "x", "w">>, <<"w", "x", "w", "x">>}

\* C27: a width-4 candidate is probed at most once in a run: each probe has
\* the slot pattern of its sub-phase (the patterns of two sub-phases differ)
\* and a candidate no earlier probe had; Phase 2 issues one probe for each
\* non-reference byte below 0x80 and each reference triple (123 * 125).
C27_W4ProbedOnce ==
  (fuzzer = "w4" /\ log # <<>>) =>
    LET e == log[Len(log)] IN
    /\ Slots(e.cand) \in SlotPatterns(e.phase)
    /\ \A k \in 1..(Len(log) - 1) : log[k].cand # e.cand
    /\ (Len(log) > 1 /\ e.phase = "w4_p3" /\ log[Len(log) - 1].phase = "w4_p2") =>
         Cardinality({k \in 1..Len(log) : log[k].phase = "w4_p2"}) =
           Cardinality({b \in Universe : b < RANGE_ASCII /\ b \notin KnownWhitespaceSet})
             * Cardinality(Reference3)

\* C27 witness: a width-4 run has issued both probes of the last iteration of
\* Phase 8, with two reference characters in range.
C27_Witness ==
  /\ fuzzer = "w4" /\ pc = "w4_report"
  /\ Cardinality(Reference3) >= 8
  /\ Len(log) >= 2
  /\ log[Len(log)].phase = "w4_p8" /\ log[Len(log) - 1].phase = "w4_p8"
  /\ Slots(log[Len(log)].cand) # Slots(log[Len(log) - 1].cand)

\* C28: for every endpoint and every answer to its request other than an
\* operator interrupt (a response with any body, a timeout, a connection
\* error), test_payload returns a dict that has the keys "success" and
\* "desc"; the request is a GET with query parameters for "/users" and a POST
\* with a JSON body for any other endpoint.
C28_TestPayloadTotal ==
  (last_call.endpoint # "") =>
    /\ last_call.resp.exc # "KeyboardInterrupt" => {"success", "desc"} \subseteq last.keys
    /\ last_call.endpoint = "/users" =>
         last_call.request = [method |-> "GET", payload_in |-> "params"]
    /\ last_call.endpoint # "/users" =>
         last_call.request = [method |-> "POST", payload_in |-> "json"]

\* C28 witness: a call for another endpoint than "/users" returned after the
\* application answered with an "error" value that is a number.
C28_Witness ==
  /\ fuzzer = "utils" /\ pc = "returned"
  /\ last_call.endpoint = "/login"
  /\ last_call.resp.exc = "none"
  /\ last_call.resp.body.shape = "object"
  /\ last_call.resp.body.users = "absent" /\ last_call.resp.body.error = "number"
  /\ ~last.success

\* C29: PgFuzzer.test returns a dict with "success", "query" and "name" for
\* every outcome of the query; after an exception success is False and the
\* dict has "error"; with `expected` given success is True iff the query ran
\* and the str of the first column of its first row equals str(expected);
\* with `expected` omitted success is True iff the query ran.  After a test
\* that failed the comprehensive fuzzer goes on with the next one.
C29_TestNeverRaises ==
  tested.called =>
    LET o == tested.outcome
        r == tested.result
    IN /\ {"success", "query", "name"} \subseteq r.keys
       /\ o.kind = "exc" => (~r.success /\ "error" \in r.keys)
       /\ tested.expected # None =>
            (r.success <=> (o.kind = "row" /\ str(o.first) = str(tested.expected)))
       /\ tested.expected = None => (r.success <=> o.kind # "exc")
       /\ (fuzzer = "comp" /\ ~r.success) => pc \notin {"aborted", "fatal"}
       /\ (fuzzer = "comp" /\ pc = "comp_tests") => Len(results) = idx - 1

\* the phases of a width fuzzer, as the history names them
PhasesOf(f) == CASE f = "w1" -> {"w1"}
                 [] f = "w2" -> {"w2"}
                 [] f = "w3" -> {"w3_p1", "w3_p2", "w3_p3", "w3_p4", "w3_p5"}
                 [] f = "w4" -> {"w4_p1", "w4_p2", "w4_p3", "w4_p4", "w4_p5", "w4_p6",
                                 "w4_p7", "w4_p8"}

\* the file at the report path before the run
Before(f) == IF f = "w4" THEN "previous" ELSE "absent"

\* C30: a width fuzzer run that ends by an operator interrupt or by an
\* exception that leaves the phase loops has touched no report file, neither
\* the report path nor the fallback path, and has built no results summary; a
\* file is written or a summary built only after every phase was run and no
\* probe was interrupted.
C30_NoWriteUnlessComplete ==
  fuzzer \in WidthFuzzers =>
    /\ pc \in {"interrupted", "aborted", "fatal"} =>
         /\ canonical = Before(fuzzer) /\ fallback = "absent" /\ tmpfile = "absent"
         /\ report = <<>> /\ expected = <<>> /\ w2_unexpected = <<>> /\ unique_bytes = <<>>
    /\ (canonical # Before(fuzzer) \/ fallback # "absent" \/ report # <<>> \/ unique_bytes # <<>>) =>
         /\ \A ph \in PhasesOf(fuzzer) : \E k \in 1..Len(log) : log[k].phase = ph
         /\ \A k \in 1..Len(log) : log[k].out.exc # "KeyboardInterrupt"

\* C30 witness: a width-4 run was interrupted in its last phase, after it
\* had recorded unexpected candidates, and the report file is the previous one.
C30_Witness ==
  /\ fuzzer = "w4" /\ pc = "interrupted"
  /\ unexpected # EmptyBag
  /\ log[Len(log)].phase = "w4_p8"
  /\ canonical = "previous" /\ fallback = "absent"

=============================================================================
